---- MODULE Spec2Model ----
(***************************************************************************)
(* Model of the task / tag service layer of fast-next-todo                 *)
(* (backend/app): repositories, services, audit trail and the request      *)
(* handlers that own the transaction boundary.                             *)
(*                                                                         *)
(* Conventions                                                             *)
(*   - Optional[T] is modelled as a set: None is {}, a present value v is  *)
(*     {v} (Some(v)); Val unwraps.                                         *)
(*   - uuid4() is modelled by fresh integers: a task's id is its position  *)
(*     in the tasks table (rows are never physically removed), a tag's id  *)
(*     comes from the counter tag_seq.                                     *)
(*   - datetime.utcnow() is the logical clock `now`, which has advanced    *)
(*     by one whenever a request has changed the database; due dates are   *)
(*     day numbers.                                                        *)
(*   - A request handler is one action.  Inside it the SQLAlchemy session  *)
(*     is a record holding the session's working view of the four tables   *)
(*     and, under `durable`, what the database has committed.              *)
(***************************************************************************)
EXTENDS Integers, Sequences, FiniteSets, TLC

VARIABLES
    tasks,        \* table tasks: sequence of Task rows, tasks[i].id = i
    tags,         \* table tags: set of Tag rows
    task_tags,    \* table task_tags: set of TaskTag rows
    audit_logs,   \* table audit_logs: sequence of AuditLog rows, in insertion order
    tag_seq,      \* number of tag ids handed out so far
    now,          \* the wall clock
    inflight,     \* requests that run concurrently: what each has read so far
    buckets,      \* RateLimiter.buckets: identifier -> list of timestamps
    clock         \* time.time(), in ticks

vars == <<tasks, tags, task_tags, audit_logs, tag_seq, now, inflight, buckets, clock>>

---------------------------------------------------------------------------
(* Bounds of the model *)

MaxTasks == 3
MaxTags == 2
MaxAudit == 4
MaxNow == 4

\* the same for the longer runs of one user's recurring tasks
MaxChainNow == 6
MaxChainAudit == 7

\* the rate limiter's configuration and the end of its clock
requests_per_minute == 2
window_seconds == 2
MaxClock == 8

\* the largest page_size and page asked for
MaxPageSize == 3
MaxPage == 4

---------------------------------------------------------------------------
(* Optional values *)

None == {}
Some(x) == {x}
Val(o) == CHOOSE x \in o : TRUE

(* Input domains *)

Users == {"u1", "u2"}
TaskIds == 1..(MaxTasks + 1)
TagIds == 1..(MaxTags + 1)
TagNames == {"Work", "work", "Home"}

SUCCESS == "success"
NOT_FOUND == "not_found"
FORBIDDEN == "forbidden"

Priorities == {"low", "medium", "high"}
Recurrences == {"none", "daily", "weekly", "monthly"}

\* What can go wrong in a request outside the service's own logic: the
\* audit INSERT fails at flush (the request's first one, "audit", or a
\* later one, "audit_next"), or the request is aborted before commit.
Faults == {"none", "audit", "audit_next", "abort"}
NoFault == {"none"}

\* TaskCreate payloads
TaskCreates ==
    { [title |-> "a", description |-> None, priority |-> "medium",
       due_date |-> None, recurrence |-> "none", tag_ids |-> {}],
      [title |-> "b", description |-> Some("d"), priority |-> "high",
       due_date |-> Some(10), recurrence |-> "weekly", tag_ids |-> {1}],
      [title |-> "b", description |-> None, priority |-> "low",
       due_date |-> Some(20), recurrence |-> "monthly", tag_ids |-> {1, 2}],
      [title |-> "a", description |-> Some("d"), priority |-> "medium",
       due_date |-> Some(10), recurrence |-> "none", tag_ids |-> {}] }

\* TaskUpdate payloads: `present` is the set of fields explicitly set
\* (model_dump(exclude_unset=True)); the other fields hold their default None.
Patch(present, title, description, priority, due_date, recurrence, tag_ids) ==
    [present |-> present, title |-> title, description |-> description,
     priority |-> priority, due_date |-> due_date, recurrence |-> recurrence,
     tag_ids |-> tag_ids]

TaskUpdates ==
    { Patch({}, None, None, None, None, None, None),
      Patch({"title", "due_date", "tag_ids"}, Some("b"), None, None, None, None, Some({1})),
      Patch({"priority", "recurrence"}, None, None, Some("low"), None, Some("daily"), None) }

---------------------------------------------------------------------------
(* The SQLAlchemy session of one request (database.get_session) *)

View(s) ==
    [tasks |-> s.tasks, tags |-> s.tags, task_tags |-> s.task_tags,
     audit_logs |-> s.audit_logs, tag_seq |-> s.tag_seq]

\* `with Session(engine) as session`: a new transaction on the committed data
Session(fault) ==
    [tasks |-> tasks, tags |-> tags, task_tags |-> task_tags,
     audit_logs |-> audit_logs, tag_seq |-> tag_seq,
     durable |-> [tasks |-> tasks, tags |-> tags, task_tags |-> task_tags,
                  audit_logs |-> audit_logs, tag_seq |-> tag_seq],
     fault |-> fault, raised |-> FALSE]

\* session.commit(): what the session has written becomes durable
session_commit(s) ==
    IF s.raised THEN s ELSE [s EXCEPT !.durable = View(s)]

\* session.flush(): pending changes are sent inside the open transaction;
\* nothing becomes durable
session_flush_committing(s) == session_commit(s)
session_flush(s) == s

---------------------------------------------------------------------------
(* models/task.py, models/tag.py, models/audit.py *)

Task(id, user_id, title, description, priority, due_date, recurrence, t) ==
    [id |-> id, user_id |-> user_id, title |-> title,
     description |-> description, priority |-> priority,
     due_date |-> due_date, recurrence |-> recurrence,
     is_completed |-> FALSE, completed_at |-> None,
     is_deleted |-> FALSE, deleted_at |-> None, deleted_by |-> None,
     created_at |-> t, updated_at |-> t]

Tag(id, user_id, name, t) ==
    [id |-> id, user_id |-> user_id, name |-> name, created_at |-> t]

TaskTag(task_id, tag_id, t) ==
    [task_id |-> task_id, tag_id |-> tag_id, created_at |-> t]

AuditLog(entity_type, entity_id, user_id, action_type, field_changed, old_value, new_value, is_system_action, t) ==
    [entity_type |-> entity_type, entity_id |-> entity_id,
     user_id |-> user_id, action_type |-> action_type,
     field_changed |-> field_changed, old_value |-> old_value,
     new_value |-> new_value, timestamp |-> t,
     is_system_action |-> is_system_action]

---------------------------------------------------------------------------
(* repositories/audit_repository.py, services/audit_service.py *)

\* whether the INSERT of the next audit entry fails in this session
insert_fails(s) ==
    \/ s.fault = "audit"
    \/ s.fault = "audit_next" /\ Len(s.audit_logs) > Len(s.durable.audit_logs)

\* an audit write that puts the new entry in place of the newest one
AuditRepository_create_overwriting(s, audit_log) ==
    IF s.raised THEN s
    ELSE IF insert_fails(s) THEN [s EXCEPT !.raised = TRUE]
    ELSE session_flush([s EXCEPT !.audit_logs =
            IF @ = <<>> THEN <<audit_log>>
            ELSE [@ EXCEPT ![Len(@)] = audit_log]])

\* AuditRepository.create: add + flush.  The INSERT is where a storage
\* failure of the audit write surfaces; it raises out of the request.
AuditRepository_create(s, audit_log) ==
    IF s.raised THEN s
    ELSE IF insert_fails(s) THEN [s EXCEPT !.raised = TRUE]
    ELSE session_flush([s EXCEPT !.audit_logs = Append(@, audit_log)])

\* json.dumps of a str
json_str(v) == "\"" \o v \o "\""

\* datetime.isoformat() of a day number
isoformat(d) == "day-" \o ToString(d)

\* AuditService._serialize_value; `type` is the runtime type the code
\* dispatches on.  The argument is Optional: None stays None.
serialize_value(value, type) ==
    IF value = None THEN None
    ELSE CASE type = "datetime" -> Some(json_str(isoformat(Val(value))))
           [] type = "enum"     -> Some(json_str(Val(value)))
           [] type = "bool"     -> Some(IF Val(value) THEN "true" ELSE "false")
           [] OTHER             -> Some(json_str(Val(value)))

\* json.dumps of the entity_data dict passed by TaskService.create_task
task_entity_data(task) ==
    Some("{\"title\": " \o json_str(task.title)
         \o ", \"priority\": " \o json_str(task.priority)
         \o ", \"recurrence\": " \o json_str(task.recurrence) \o "}")

\* json.dumps of the entity_data dict passed by TagService.create_tag
tag_entity_data(tag) ==
    Some("{\"name\": " \o json_str(tag.name) \o "}")

log_create(s, entity_type, entity_id, user_id, entity_data, t) ==
    AuditRepository_create(s,
        AuditLog(entity_type, entity_id, user_id, "create",
                 None, None, entity_data, FALSE, t))

log_update(s, entity_type, entity_id, user_id, change, t) ==
    AuditRepository_create(s,
        AuditLog(entity_type, entity_id, user_id, "update",
                 Some(change.field),
                 serialize_value(change.old, change.type),
                 serialize_value(change.new, change.type), FALSE, t))

\* AuditService.log_updates: one log_update per item of `changes`,
\* in the dict's (insertion) order
RECURSIVE log_updates(_, _, _, _, _, _)
log_updates(s, entity_type, entity_id, user_id, changes, t) ==
    IF changes = <<>> THEN s
    ELSE log_updates(
            log_update(s, entity_type, entity_id, user_id, Head(changes), t),
            entity_type, entity_id, user_id, Tail(changes), t)

log_complete(s, entity_type, entity_id, user_id, t) ==
    AuditRepository_create(s,
        AuditLog(entity_type, entity_id, user_id, "complete",
                 Some("is_completed"),
                 serialize_value(Some(FALSE), "bool"),
                 serialize_value(Some(TRUE), "bool"), FALSE, t))

log_uncomplete(s, entity_type, entity_id, user_id, t) ==
    AuditRepository_create(s,
        AuditLog(entity_type, entity_id, user_id, "uncomplete",
                 Some("is_completed"),
                 serialize_value(Some(TRUE), "bool"),
                 serialize_value(Some(FALSE), "bool"), FALSE, t))

log_delete(s, entity_type, entity_id, user_id, soft_delete, t) ==
    AuditRepository_create(s,
        AuditLog(entity_type, entity_id, user_id, "delete",
                 IF soft_delete THEN Some("is_deleted") ELSE None,
                 IF soft_delete THEN serialize_value(Some(FALSE), "bool") ELSE None,
                 IF soft_delete THEN serialize_value(Some(TRUE), "bool") ELSE None,
                 FALSE, t))

\* json.dumps({"source_task_id": source_task_id})
source_task_data(source_task_id) ==
    Some("{\"source_task_id\": " \o json_str(ToString(source_task_id)) \o "}")

\* a follow-up entry that is not flagged as system-generated
log_recurring_auto_create_as_user(s, entity_type, entity_id, user_id, source_task_id, t) ==
    AuditRepository_create(s,
        AuditLog(entity_type, entity_id, user_id, "recurring_auto_create",
                 None, None, source_task_data(source_task_id), FALSE, t))

log_recurring_auto_create(s, entity_type, entity_id, user_id, source_task_id, t) ==
    AuditRepository_create(s,
        AuditLog(entity_type, entity_id, user_id, "recurring_auto_create",
                 None, None, source_task_data(source_task_id), TRUE, t))

---------------------------------------------------------------------------
(* repositories/task_repository.py *)

\* the row of the session's tasks table a Task object stands for
Row(s, task) == s.tasks[task.id]

TaskRepository_create(s, user_id, title, description, priority, due_date, recurrence, t) ==
    session_flush([s EXCEPT !.tasks =
        Append(@, Task(Len(@) + 1, user_id, title, description,
                       priority, due_date, recurrence, t))])

\* the Task object TaskRepository.create returns (the row just inserted)
created_task(s) == s.tasks[Len(s.tasks)]

\* a lookup that forgets the owner filter
TaskRepository_get_by_id_any_owner(s, task_id, user_id) ==
    LET rows == { i \in DOMAIN s.tasks :
                    /\ s.tasks[i].id = task_id
                    /\ s.tasks[i].is_deleted = FALSE }
    IN  IF rows = {} THEN None ELSE Some(s.tasks[CHOOSE i \in rows : TRUE])

\* .first() of the select: None when no row matches
TaskRepository_get_by_id(s, task_id, user_id) ==
    LET rows == { i \in DOMAIN s.tasks :
                    /\ s.tasks[i].id = task_id
                    /\ s.tasks[i].user_id = user_id
                    /\ s.tasks[i].is_deleted = FALSE }
    IN  IF rows = {} THEN None ELSE Some(s.tasks[CHOOSE i \in rows : TRUE])

\* an existence check that counts soft-deleted rows too
TaskRepository_exists_by_id_including_deleted(s, task_id) ==
    Cardinality({ i \in DOMAIN s.tasks : s.tasks[i].id = task_id }) > 0

TaskRepository_exists_by_id(s, task_id) ==
    LET count == Cardinality({ i \in DOMAIN s.tasks :
                                 /\ s.tasks[i].id = task_id
                                 /\ s.tasks[i].is_deleted = FALSE })
    IN  count > 0

TaskRepository_get_by_id_including_deleted(s, task_id, user_id) ==
    LET rows == { i \in DOMAIN s.tasks :
                    /\ s.tasks[i].id = task_id
                    /\ s.tasks[i].user_id = user_id }
    IN  IF rows = {} THEN None ELSE Some(s.tasks[CHOOSE i \in rows : TRUE])

\* a listing that forgets the is_deleted filter
TaskRepository_list_for_user_with_deleted(s, user_id) ==
    { s.tasks[i] : i \in { j \in DOMAIN s.tasks : s.tasks[j].user_id = user_id } }

\* TaskRepository.list_for_user without optional filters: the base query
\* (owner, not deleted) and its count; page and page_size cut the items
TaskRepository_list_for_user(s, user_id) ==
    { s.tasks[i] : i \in { j \in DOMAIN s.tasks :
                             /\ s.tasks[j].user_id = user_id
                             /\ s.tasks[j].is_deleted = FALSE } }

\* TaskRepository.update: setattr for every key whose value is not None,
\* then updated_at.  update_data is the patch without tag_ids.
TaskRepository_update(s, task, update_data, t) ==
    LET set(key, old) ==
            IF key \in update_data.present /\ update_data[key] # None
            THEN Val(update_data[key]) ELSE old
        row == Row(s, task)
    IN  session_flush([s EXCEPT !.tasks[task.id] =
            [row EXCEPT !.title = set("title", @),
                        !.description = IF "description" \in update_data.present
                                           /\ update_data.description # None
                                        THEN update_data.description ELSE @,
                        !.priority = set("priority", @),
                        !.due_date = IF "due_date" \in update_data.present
                                        /\ update_data.due_date # None
                                     THEN update_data.due_date ELSE @,
                        !.recurrence = set("recurrence", @),
                        !.updated_at = t]])

TaskRepository_complete(s, task, t) ==
    session_flush([s EXCEPT !.tasks[task.id] =
        [Row(s, task) EXCEPT !.is_completed = TRUE,
                             !.completed_at = Some(t),
                             !.updated_at = t]])

\* uncomplete that clears the flag and leaves the timestamp
TaskRepository_uncomplete_keeping_stamp(s, task, t) ==
    session_flush([s EXCEPT !.tasks[task.id] =
        [Row(s, task) EXCEPT !.is_completed = FALSE,
                             !.updated_at = t]])

TaskRepository_uncomplete(s, task, t) ==
    session_flush([s EXCEPT !.tasks[task.id] =
        [Row(s, task) EXCEPT !.is_completed = FALSE,
                             !.completed_at = None,
                             !.updated_at = t]])

\* a soft delete that does not record who deleted
TaskRepository_soft_delete_anonymous(s, task, deleted_by, t) ==
    session_flush([s EXCEPT !.tasks[task.id] =
        [Row(s, task) EXCEPT !.is_deleted = TRUE,
                             !.deleted_at = Some(t),
                             !.updated_at = t]])

TaskRepository_soft_delete(s, task, deleted_by, t) ==
    session_flush([s EXCEPT !.tasks[task.id] =
        [Row(s, task) EXCEPT !.is_deleted = TRUE,
                             !.deleted_at = Some(t),
                             !.deleted_by = Some(deleted_by),
                             !.updated_at = t]])

\* a _clear_tags that removes nothing
TaskRepository_clear_tags_keeping(s, task) == s

TaskRepository_clear_tags(s, task) ==
    [s EXCEPT !.task_tags = { tt \in @ : tt.task_id # task.id }]

TaskRepository_get_valid_tags(s, tag_ids, user_id) ==
    { tag \in s.tags : tag.id \in tag_ids /\ tag.user_id = user_id }

TaskRepository_set_tags(s, task, tag_ids, user_id, t) ==
    LET s1 == TaskRepository_clear_tags(s, task)
        valid_tags == IF tag_ids # {}
                      THEN TaskRepository_get_valid_tags(s1, tag_ids, user_id)
                      ELSE {}
    IN  session_flush([s1 EXCEPT !.task_tags =
            @ \cup { TaskTag(task.id, tag.id, t) : tag \in valid_tags }])

---------------------------------------------------------------------------
(* repositories/tag_repository.py *)

\* UniqueConstraint("user_id", "name", name="uq_tags_user_name"): whether
\* a table of tags satisfies it.  The comparison is that of the column's
\* values as stored, so "Work" and "work" are two names.
uq_tags_user_name(rows) ==
    \A g, h \in rows : (g.user_id = h.user_id /\ g.name = h.name) => g.id = h.id

\* the flush of an INSERT or UPDATE on tags: an IntegrityError is raised
\* when the rows would break the constraint
flush_tags(s, rows) ==
    IF uq_tags_user_name(rows)
    THEN session_flush([s EXCEPT !.tags = rows])
    ELSE [s EXCEPT !.raised = TRUE]

\* uuid4() for a tag
TagRepository_create(s, user_id, name, t) ==
    IF s.raised THEN s
    ELSE flush_tags([s EXCEPT !.tag_seq = @ + 1],
                    s.tags \cup {Tag(s.tag_seq + 1, user_id, name, t)})

TagRepository_get_by_id(s, tag_id, user_id) ==
    LET rows == { tag \in s.tags : tag.id = tag_id /\ tag.user_id = user_id }
    IN  IF rows = {} THEN None ELSE Some(CHOOSE tag \in rows : TRUE)

TagRepository_exists_by_id(s, tag_id) ==
    Cardinality({ tag \in s.tags : tag.id = tag_id }) > 0

\* SQL lower() on the names the model uses
lower(name) ==
    CASE name = "Work" -> "work"
      [] name = "Home" -> "home"
      [] OTHER -> name

\* a name lookup that compares the names as they are written
TagRepository_get_by_name_exact(s, user_id, name) ==
    LET rows == { tag \in s.tags : tag.user_id = user_id /\ tag.name = name }
    IN  IF rows = {} THEN None ELSE Some(CHOOSE tag \in rows : TRUE)

\* a name lookup that is not scoped to the owner
TagRepository_get_by_name_any_owner(s, user_id, name) ==
    LET rows == { tag \in s.tags : lower(tag.name) = lower(name) }
    IN  IF rows = {} THEN None ELSE Some(CHOOSE tag \in rows : TRUE)

\* .first() of the select: any one of the matching rows
TagRepository_get_by_name(s, user_id, name) ==
    LET rows == { tag \in s.tags :
                    tag.user_id = user_id /\ lower(tag.name) = lower(name) }
    IN  IF rows = {} THEN None ELSE Some(CHOOSE tag \in rows : TRUE)

\* UPDATE tags SET name = ... WHERE id = tag.id
TagRepository_update(s, tag, name) ==
    IF s.raised THEN s
    ELSE flush_tags(s, { g \in s.tags : g.id # tag.id }
                          \cup {[tag EXCEPT !.name = name]})

\* a delete that removes the tag and leaves its associations behind
TagRepository_delete_leaving_links(s, tag) ==
    session_flush([s EXCEPT !.tags = @ \ {tag}])

\* session.delete(tag): the ORM removes the tag's rows of the link table
\* (Tag.tasks, link_model=TaskTag) with it; task_tags.tag_id is also
\* ON DELETE CASCADE
TagRepository_delete(s, tag) ==
    session_flush([s EXCEPT !.tags = @ \ {tag},
                            !.task_tags = { tt \in @ : tt.tag_id # tag.id }])

---------------------------------------------------------------------------
(* services/task_service.py *)

\* a service call's return value together with the session it leaves
Ret(result, s, task, next_task) ==
    [result |-> result, session |-> s, task |-> task, next_task |-> next_task]

\* get_task_with_access_check from its second read on
access_after_exists(s, task_id, user_id) ==
    LET task == TaskRepository_get_by_id(s, task_id, user_id)
    IN  IF task = None
        THEN [result |-> FORBIDDEN, task |-> None]
        ELSE [result |-> SUCCESS, task |-> task]

\* an access check that lets the owner through to a soft-deleted task
TaskService_get_task_with_access_check_owner_first(s, task_id, user_id) ==
    IF TaskRepository_get_by_id_including_deleted(s, task_id, user_id) # None
    THEN [result |-> SUCCESS,
          task |-> TaskRepository_get_by_id_including_deleted(s, task_id, user_id)]
    ELSE IF ~TaskRepository_exists_by_id(s, task_id)
    THEN [result |-> NOT_FOUND, task |-> None]
    ELSE access_after_exists(s, task_id, user_id)

TaskService_get_task_with_access_check(s, task_id, user_id) ==
    IF ~TaskRepository_exists_by_id(s, task_id)
    THEN [result |-> NOT_FOUND, task |-> None]
    ELSE access_after_exists(s, task_id, user_id)

TaskService_get_task(s, task_id, user_id) ==
    TaskRepository_get_by_id(s, task_id, user_id)

TaskService_list_tasks(s, user_id) ==
    TaskRepository_list_for_user(s, user_id)

TaskService_create_task(s, user_id, data, t) ==
    LET s1 == TaskRepository_create(s, user_id, data.title, data.description,
                                    data.priority, data.due_date,
                                    data.recurrence, t)
        task == created_task(s1)
        s2 == IF data.tag_ids # {}
              THEN TaskRepository_set_tags(s1, task, data.tag_ids, user_id, t)
              ELSE s1
        s3 == log_create(s2, "task", task.id, user_id, task_entity_data(task), t)
    IN  Ret(SUCCESS, s3, Some(task), None)

\* a next due date that takes a month to be 31 days
calculate_next_due_date_long_month(current_due_date, recurrence) ==
    IF current_due_date = None THEN None
    ELSE CASE recurrence = "daily"   -> Some(Val(current_due_date) + 1)
           [] recurrence = "weekly"  -> Some(Val(current_due_date) + 7)
           [] recurrence = "monthly" -> Some(Val(current_due_date) + 31)
           [] OTHER                  -> None

\* TaskService._calculate_next_due_date
calculate_next_due_date(current_due_date, recurrence) ==
    IF current_due_date = None THEN None
    ELSE CASE recurrence = "daily"   -> Some(Val(current_due_date) + 1)
           [] recurrence = "weekly"  -> Some(Val(current_due_date) + 7)
           [] recurrence = "monthly" -> Some(Val(current_due_date) + 30)
           [] OTHER                  -> None

\* TaskService._create_recurring_task
create_recurring_task(s, source_task, user_id, t) ==
    LET next_due_date == calculate_next_due_date(source_task.due_date,
                                                 source_task.recurrence)
        s1 == TaskRepository_create(s, user_id, source_task.title,
                                    source_task.description,
                                    source_task.priority, next_due_date,
                                    source_task.recurrence, t)
        new_task == created_task(s1)
    IN  Ret(SUCCESS,
            log_recurring_auto_create(s1, "task", new_task.id, user_id,
                                      source_task.id, t),
            Some(new_task), None)

\* the (field, old, new) triples update_task compares, in the order of
\* the fields of TaskUpdate
update_candidates(task, data) ==
    << [field |-> "title", old |-> Some(task.title),
        new |-> data.title, type |-> "str"],
       [field |-> "description", old |-> task.description,
        new |-> data.description, type |-> "str"],
       [field |-> "priority", old |-> Some(task.priority),
        new |-> data.priority, type |-> "enum"],
       [field |-> "due_date", old |-> task.due_date,
        new |-> data.due_date, type |-> "datetime"],
       [field |-> "recurrence", old |-> Some(task.recurrence),
        new |-> data.recurrence, type |-> "enum"] >>

TaskService_update_task(s, task_id, user_id, data, t) ==
    LET access == TaskService_get_task_with_access_check(s, task_id, user_id)
    IN
    IF access.result # SUCCESS \/ access.task = None
    THEN Ret(access.result, s, None, None)
    ELSE
    LET task == Val(access.task)
        update_data == [data EXCEPT !.present = @ \ {"tag_ids"}]
        tag_ids == IF "tag_ids" \in data.present THEN data.tag_ids ELSE None
        changes == SelectSeq(update_candidates(task, data),
                       LAMBDA c : c.field \in update_data.present /\ c.old # c.new)
        s1 == TaskRepository_update(s, task, update_data, t)
        s2 == IF tag_ids # None
              THEN TaskRepository_set_tags(s1, task, Val(tag_ids), user_id, t)
              ELSE s1
        s3 == IF changes # <<>>
              THEN log_updates(s2, "task", task.id, user_id, changes, t)
              ELSE s2
    IN  Ret(SUCCESS, s3, Some(Row(s3, task)), None)

\* a complete_task without its early return
already_completed_never(task) == FALSE

\* complete_task: `if task.is_completed:` (already completed, just return it)
already_completed(task) == task.is_completed

\* a complete_task that goes on to the follow-up only for a task that was
\* not completed before
handle_recurrence_first_time(task) ==
    /\ task.recurrence # "none"
    /\ task.due_date # None
    /\ task.updated_at = task.created_at + 1

\* a complete_task that always goes on to the follow-up
handle_recurrence_always(task) == TRUE

\* complete_task: `if task.recurrence != Recurrence.NONE and task.due_date:`
handle_recurrence(task) == task.recurrence # "none" /\ task.due_date # None

\* complete_task from `completed_task = self.repository.complete(task)` on:
\* the UPDATE of the row as it is by now, the refresh of the Task object,
\* the audit entry and the follow-up
complete_task_write(s, task, user_id, t) ==
    LET s1 == TaskRepository_complete(s, task, t)
        completed_task == Row(s1, task)
        s2 == log_complete(s1, "task", task.id, user_id, t)
    IN  IF handle_recurrence(completed_task)
        THEN LET next == create_recurring_task(s2, completed_task, user_id, t)
             IN  Ret(SUCCESS, next.session, Some(completed_task), next.task)
        ELSE Ret(SUCCESS, s2, Some(completed_task), None)

TaskService_complete_task(s, task_id, user_id, t) ==
    LET access == TaskService_get_task_with_access_check(s, task_id, user_id)
    IN
    IF access.result # SUCCESS \/ access.task = None
    THEN Ret(access.result, s, None, None)
    ELSE
    LET task == Val(access.task)
    IN
    IF already_completed(task)
    THEN Ret(SUCCESS, s, Some(task), None)
    ELSE complete_task_write(s, task, user_id, t)

\* an uncomplete_task without its early return
already_incomplete_never(task) == FALSE

\* uncomplete_task: `if not task.is_completed:` (already incomplete, just
\* return it)
already_incomplete(task) == ~task.is_completed

TaskService_uncomplete_task(s, task_id, user_id, t) ==
    LET access == TaskService_get_task_with_access_check(s, task_id, user_id)
    IN
    IF access.result # SUCCESS \/ access.task = None
    THEN Ret(access.result, s, None, None)
    ELSE
    LET task == Val(access.task)
    IN
    IF already_incomplete(task)
    THEN Ret(SUCCESS, s, Some(task), None)
    ELSE
    LET s1 == TaskRepository_uncomplete(s, task, t)
        s2 == log_uncomplete(s1, "task", task.id, user_id, t)
    IN  Ret(SUCCESS, s2, Some(Row(s1, task)), None)

TaskService_delete_task(s, task_id, user_id, t) ==
    LET access == TaskService_get_task_with_access_check(s, task_id, user_id)
    IN
    IF access.result # SUCCESS \/ access.task = None
    THEN Ret(access.result, s, None, None)
    ELSE
    LET task == Val(access.task)
        s1 == TaskRepository_soft_delete(s, task, user_id, t)
        s2 == log_delete(s1, "task", task.id, user_id, TRUE, t)
    IN  Ret(SUCCESS, s2, None, None)

---------------------------------------------------------------------------
(* services/tag_service.py *)

CONFLICT == "conflict"

TagService_get_tag_with_access_check(s, tag_id, user_id) ==
    IF ~TagRepository_exists_by_id(s, tag_id)
    THEN [result |-> NOT_FOUND, tag |-> None]
    ELSE LET tag == TagRepository_get_by_id(s, tag_id, user_id)
         IN  IF tag = None
             THEN [result |-> FORBIDDEN, tag |-> None]
             ELSE [result |-> SUCCESS, tag |-> tag]

\* raise ValueError(...) is the result CONFLICT: the handler maps it to 409
\* create_tag after its duplicate check: repository.create and log_create
create_tag_write(s, user_id, name, t) ==
    LET s1 == TagRepository_create(s, user_id, name, t)
        tag == Tag(s1.tag_seq, user_id, name, t)
        s2 == log_create(s1, "tag", tag.id, user_id, tag_entity_data(tag), t)
    IN  Ret(SUCCESS, s2, Some(tag), None)

TagService_create_tag(s, user_id, name, t) ==
    LET existing == TagRepository_get_by_name(s, user_id, name)
    IN
    IF existing # None
    THEN Ret(CONFLICT, s, None, None)
    ELSE create_tag_write(s, user_id, name, t)

\* update_tag after its duplicate check: repository.update and log_updates
update_tag_write(s, tag, user_id, name, t) ==
    LET old_name == tag.name
        s1 == TagRepository_update(s, tag, name)
        s2 == log_updates(s1, "tag", tag.id, user_id,
                  << [field |-> "name", old |-> Some(old_name),
                      new |-> Some(name), type |-> "str"] >>, t)
    IN  Ret(SUCCESS, s2, Some([tag EXCEPT !.name = name]), None)

\* data_name is TagUpdate.name: None or the new name
TagService_update_tag(s, tag_id, user_id, data_name, t) ==
    LET access == TagService_get_tag_with_access_check(s, tag_id, user_id)
    IN
    IF access.result # SUCCESS \/ access.tag = None
    THEN Ret(access.result, s, None, None)
    ELSE
    LET tag == Val(access.tag)
    IN
    IF data_name = None
    THEN Ret(SUCCESS, s, Some(tag), None)
    ELSE
    LET existing == TagRepository_get_by_name(s, user_id, Val(data_name))
    IN
    IF existing # None /\ Val(existing).id # tag_id
    THEN Ret(CONFLICT, s, None, None)
    ELSE update_tag_write(s, tag, user_id, Val(data_name), t)

TagService_delete_tag(s, tag_id, user_id, t) ==
    LET access == TagService_get_tag_with_access_check(s, tag_id, user_id)
    IN
    IF access.result # SUCCESS \/ access.tag = None
    THEN Ret(access.result, s, None, None)
    ELSE
    LET tag == Val(access.tag)
        s1 == TagRepository_delete(s, tag)
        s2 == log_delete(s1, "tag", tag_id, user_id, FALSE, t)
    IN  Ret(SUCCESS, s2, None, None)

---------------------------------------------------------------------------
(* api/v1/tasks.py, api/v1/tags.py: the request handlers *)

TagUpdates == {None, Some("work"), Some("Home")}

\* What the client gets: the access result the handler turns into a status,
\* "error" when an exception left the handler, "aborted" when the request
\* was cancelled before session.commit()
Outcome(r) ==
    IF r.session.raised THEN "error"
    ELSE IF r.result # SUCCESS THEN r.result
    ELSE IF r.session.fault = "abort" THEN "aborted"
    ELSE SUCCESS

\* The tail every mutating handler shares: raise_for_access_result (or the
\* ValueError -> 409 mapping) leaves without committing, otherwise
\* session.commit(); then get_session's `with` block closes the session
\* and only what was committed remains.
Finish(r) ==
    IF Outcome(r) = SUCCESS THEN session_commit(r.session) ELSE r.session

\* The database after the request; the clock has moved on when the
\* request changed anything.  The model stops at max_now and keeps the
\* tables within their bounds.
RespondWithin(r, max_now, max_audit) ==
    LET db == Finish(r).durable
    IN  /\ now < max_now
        /\ Len(db.tasks) <= MaxTasks
        /\ Len(db.audit_logs) <= max_audit
        /\ db.tag_seq <= MaxTags
        /\ tasks' = db.tasks
        /\ tags' = db.tags
        /\ task_tags' = db.task_tags
        /\ audit_logs' = db.audit_logs
        /\ tag_seq' = db.tag_seq
        /\ now' = IF db # View(Session("none")) THEN now + 1 ELSE now
        /\ UNCHANGED <<buckets, clock>>

Respond(r) == RespondWithin(r, MaxNow, MaxAudit)

create_task(user_id, data, fault) ==
    /\ Respond(TaskService_create_task(Session(fault), user_id, data, now))
    /\ UNCHANGED inflight

update_task(user_id, task_id, data, fault) ==
    /\ Respond(TaskService_update_task(Session(fault), task_id, user_id, data, now))
    /\ UNCHANGED inflight

delete_task(user_id, task_id, fault) ==
    /\ Respond(TaskService_delete_task(Session(fault), task_id, user_id, now))
    /\ UNCHANGED inflight

complete_task(user_id, task_id, fault) ==
    /\ Respond(TaskService_complete_task(Session(fault), task_id, user_id, now))
    /\ UNCHANGED inflight

uncomplete_task(user_id, task_id, fault) ==
    /\ Respond(TaskService_uncomplete_task(Session(fault), task_id, user_id, now))
    /\ UNCHANGED inflight

create_tag(user_id, name, fault) ==
    /\ Respond(TagService_create_tag(Session(fault), user_id, name, now))
    /\ UNCHANGED inflight

update_tag(user_id, tag_id, data_name, fault) ==
    /\ Respond(TagService_update_tag(Session(fault), tag_id, user_id, data_name, now))
    /\ UNCHANGED inflight

delete_tag(user_id, tag_id, fault) ==
    /\ Respond(TagService_delete_tag(Session(fault), tag_id, user_id, now))
    /\ UNCHANGED inflight

---------------------------------------------------------------------------
(* middleware/rate_limit.py *)

\* time.time() is a float of seconds; the model's clock counts ticks
TicksPerSecond == 2

\* int(x) for x given in ticks: whole seconds, truncated towards zero
int(ticks) ==
    IF ticks >= 0 THEN ticks \div TicksPerSecond
    ELSE -((-ticks) \div TicksPerSecond)

\* a max that always takes its second argument
max_second(a, b) == b

max(a, b) == IF a >= b THEN a ELSE b

\* min(bucket.requests)
oldest_of(requests) ==
    CHOOSE t \in { requests[i] : i \in DOMAIN requests } :
        \A i \in DOMAIN requests : t <= requests[i]

Identifiers == {"user:1", "ip:1"}

\* self.buckets[identifier] of the defaultdict: reading a missing key
\* makes an empty bucket
buckets_getitem(bkts, identifier) ==
    IF identifier \in DOMAIN bkts THEN bkts
    ELSE (identifier :> <<>>) @@ bkts

\* a count that never lets a timestamp leave the window
RateLimitBucket_count_all(requests, window, time) == Len(requests)

\* RateLimitBucket.count; `time` is what its own time.time() returns
RateLimitBucket_count(requests, window, time) ==
    LET cutoff == time - window * TicksPerSecond
    IN  Cardinality({ i \in DOMAIN requests : requests[i] > cutoff })

\* an add_request that forgets what the bucket held
RateLimitBucket_add_request_replacing(requests, timestamp, window) == <<timestamp>>

\* an add_request that appends the timestamp twice
RateLimitBucket_add_request_twice(requests, timestamp, window) ==
    LET cutoff == timestamp - window * TicksPerSecond
    IN  SelectSeq(requests, LAMBDA t : t > cutoff) \o <<timestamp, timestamp>>

RateLimitBucket_add_request(requests, timestamp, window) ==
    LET cutoff == timestamp - window * TicksPerSecond
    IN  Append(SelectSeq(requests, LAMBDA t : t > cutoff), timestamp)

\* an is_allowed that records the attempt before it decides
RateLimiter_is_allowed_recording(bkts, identifier, t, time) ==
    LET bkts1 == buckets_getitem(bkts, identifier)
        bucket == bkts1[identifier]
        current_count == RateLimitBucket_count(bucket, window_seconds, time)
        recorded == [bkts1 EXCEPT ![identifier] =
                        RateLimitBucket_add_request(bucket, t, window_seconds)]
    IN  IF current_count >= requests_per_minute
        THEN [allowed |-> FALSE, remaining |-> 0, buckets |-> recorded]
        ELSE [allowed |-> TRUE,
              remaining |-> requests_per_minute - current_count - 1,
              buckets |-> recorded]

\* RateLimiter.is_allowed; `t` is the time.time() it reads first, `time`
\* the one bucket.count reads after it
RateLimiter_is_allowed(bkts, identifier, t, time) ==
    LET bkts1 == buckets_getitem(bkts, identifier)
        bucket == bkts1[identifier]
        current_count == RateLimitBucket_count(bucket, window_seconds, time)
    IN  IF current_count >= requests_per_minute
        THEN [allowed |-> FALSE, remaining |-> 0, buckets |-> bkts1]
        ELSE [allowed |-> TRUE,
              remaining |-> requests_per_minute - current_count - 1,
              buckets |-> [bkts1 EXCEPT ![identifier] =
                  RateLimitBucket_add_request(bucket, t, window_seconds)]]

RateLimiter_get_retry_after(bkts, identifier, time) ==
    IF identifier \notin DOMAIN bkts \/ bkts[identifier] = <<>>
    THEN 0
    ELSE LET oldest == oldest_of(bkts[identifier])
         IN  max(1, int(window_seconds * TicksPerSecond - (time - oldest)))

\* how far the clock may move on between two reads within one call
Drifts == {0, 1}

\* RateLimitMiddleware.dispatch up to the route handler: the limiter's
\* check, which the event loop runs without interruption
dispatch(identifier, drift) ==
    /\ clock + drift <= MaxClock
    /\ buckets' = RateLimiter_is_allowed(buckets, identifier, clock, clock + drift).buckets
    /\ clock' = clock + drift
    /\ UNCHANGED <<tasks, tags, task_tags, audit_logs, tag_seq, now, inflight>>

\* time passes between requests
Tick ==
    /\ clock < MaxClock
    /\ clock' = clock + 1
    /\ UNCHANGED <<tasks, tags, task_tags, audit_logs, tag_seq, now, inflight, buckets>>

---------------------------------------------------------------------------
(* api/v1/tasks.py, api/v1/tags.py: the listings *)

PageSizes == 1..MaxPageSize
Pages == 1..MaxPage

\* ORDER BY: the rows as a sequence of ascending key; rows of equal key
\* come in some order
RECURSIVE order_by(_, _)
order_by(rows, key) ==
    IF rows = {} THEN <<>>
    ELSE LET first == CHOOSE r \in rows : \A q \in rows : key[r] <= key[q]
         IN  <<first>> \o order_by(rows \ {first}, key)

\* .offset(offset).limit(limit) on the ordered rows
offset_limit(seq, offset, limit) ==
    SubSeq(seq, offset + 1, IF offset + limit <= Len(seq) THEN offset + limit ELSE Len(seq))

\* TaskRepository.list_for_user with its default sorting and no optional
\* filter: the count of the base query, then one page of it
TaskRepository_list_page(s, user_id, page, page_size) ==
    LET rows == TaskRepository_list_for_user(s, user_id)
        created_at_desc == [r \in rows |-> 0 - r.created_at]
    IN  [items |-> offset_limit(order_by(rows, created_at_desc),
                                (page - 1) * page_size, page_size),
         total |-> Cardinality(rows)]

\* Tag.name.asc(), by the code points of the names
name_rank(name) ==
    CASE name = "Home" -> 1
      [] name = "Work" -> 2
      [] name = "work" -> 3

\* TagRepository.list_for_user without search
TagRepository_list_page(s, user_id, page, page_size) ==
    LET rows == { tag \in s.tags : tag.user_id = user_id }
        name_asc == [r \in rows |-> name_rank(r.name)]
    IN  [items |-> offset_limit(order_by(rows, name_asc),
                                (page - 1) * page_size, page_size),
         total |-> Cardinality(rows)]

\* a page count that rounds down
total_pages_floor(total, page_size) == total \div page_size

\* total_pages = (total + page_size - 1) // page_size
total_pages(total, page_size) == (total + page_size - 1) \div page_size

\* GET /tasks: the TaskListResponse
list_tasks(user_id, page, page_size) ==
    LET r == TaskRepository_list_page(Session("none"), user_id, page, page_size)
    IN  [items |-> r.items, total |-> r.total, page |-> page,
         page_size |-> page_size,
         total_pages |-> total_pages(r.total, page_size)]

\* GET /tags: the TagListResponse
list_tags(user_id, page, page_size) ==
    LET r == TagRepository_list_page(Session("none"), user_id, page, page_size)
    IN  [items |-> r.items, total |-> r.total, page |-> page,
         page_size |-> page_size,
         total_pages |-> total_pages(r.total, page_size)]

---------------------------------------------------------------------------
(* Requests served concurrently by different instances of the application *)
(* (api/index.py: one serverless instance per invocation) on the one      *)
(* database.  A transaction reads what is committed when it reads (READ   *)
(* COMMITTED) and its writes reach the others at its commit.              *)

Slots == {"r1", "r2"}

Idle == [pc |-> "idle"]

\* a request that has ended, with what it answered
Done(outcome) == [pc |-> "done", outcome |-> outcome]

\* a GET /tasks/{task_id} that has ended: who asked for which task, and
\* what was answered
Answered(outcome, user_id, task_id) ==
    [pc |-> "done", outcome |-> outcome, user_id |-> user_id, task_id |-> task_id]

Free(k) == inflight[k].pc \in {"idle", "done"}

---------------------------------------------------------------------------
(* The system *)

Init ==
    /\ tasks = <<>>
    /\ tags = {}
    /\ task_tags = {}
    /\ audit_logs = <<>>
    /\ tag_seq = 0
    /\ now = 1
    /\ inflight = [k \in Slots |-> Idle]
    /\ buckets = <<>>
    /\ clock = 0

CreateTask(U, F) == \E u \in U, d \in TaskCreates, f \in F : create_task(u, d, f)
UpdateTask(U, F) == \E u \in U, id \in TaskIds, d \in TaskUpdates, f \in F : update_task(u, id, d, f)
DeleteTask(U, F) == \E u \in U, id \in TaskIds, f \in F : delete_task(u, id, f)
CompleteTask(U, F) == \E u \in U, id \in TaskIds, f \in F : complete_task(u, id, f)
UncompleteTask(U, F) == \E u \in U, id \in TaskIds, f \in F : uncomplete_task(u, id, f)
CreateTag(U, F) == \E u \in U, n \in TagNames, f \in F : create_tag(u, n, f)
UpdateTag(U, F) == \E u \in U, id \in TagIds, n \in TagUpdates, f \in F : update_tag(u, id, n, f)
DeleteTag(U, F) == \E u \in U, id \in TagIds, f \in F : delete_tag(u, id, f)

\* Requests of all users, with the storage working and no request aborted
Next ==
    \/ CreateTask(Users, NoFault)
    \/ UpdateTask(Users, NoFault)
    \/ DeleteTask(Users, NoFault)
    \/ CompleteTask(Users, NoFault)
    \/ UncompleteTask(Users, NoFault)
    \/ CreateTag(Users, NoFault)
    \/ UpdateTag(Users, NoFault)
    \/ DeleteTag(Users, NoFault)

Spec == Init /\ [][Next]_vars

\* Requests of one user, any of which may fail at the audit write or be
\* aborted before its commit
FaultUsers == {"u1"}

FaultNext ==
    \/ CreateTask(FaultUsers, Faults)
    \/ UpdateTask(FaultUsers, Faults)
    \/ DeleteTask(FaultUsers, Faults)
    \/ CompleteTask(FaultUsers, Faults)
    \/ UncompleteTask(FaultUsers, Faults)
    \/ CreateTag(FaultUsers, Faults)
    \/ UpdateTag(FaultUsers, Faults)
    \/ DeleteTag(FaultUsers, Faults)

SpecFault == Init /\ [][FaultNext]_vars

\* Longer runs of the requests of one user around recurring tasks: tasks
\* due at 10, patches that set the recurrence, one tag
ChainUsers == {"u1"}
ChainCreates == { d \in TaskCreates : d.due_date = Some(10) }
ChainUpdates == { d \in TaskUpdates : "recurrence" \in d.present }
ChainTagNames == {"Work"}

ChainCreateTag ==
    /\ \E u \in ChainUsers, n \in ChainTagNames :
           RespondWithin(TagService_create_tag(Session("none"), u, n, now),
                         MaxChainNow, MaxChainAudit)
    /\ UNCHANGED inflight

ChainCreateTask ==
    /\ \E u \in ChainUsers, d \in ChainCreates :
           RespondWithin(TaskService_create_task(Session("none"), u, d, now),
                         MaxChainNow, MaxChainAudit)
    /\ UNCHANGED inflight

ChainUpdateTask ==
    /\ \E u \in ChainUsers, id \in TaskIds, d \in ChainUpdates :
           RespondWithin(TaskService_update_task(Session("none"), id, u, d, now),
                         MaxChainNow, MaxChainAudit)
    /\ UNCHANGED inflight

ChainCompleteTask ==
    /\ \E u \in ChainUsers, id \in TaskIds :
           RespondWithin(TaskService_complete_task(Session("none"), id, u, now),
                         MaxChainNow, MaxChainAudit)
    /\ UNCHANGED inflight

ChainUncompleteTask ==
    /\ \E u \in ChainUsers, id \in TaskIds :
           RespondWithin(TaskService_uncomplete_task(Session("none"), id, u, now),
                         MaxChainNow, MaxChainAudit)
    /\ UNCHANGED inflight

ChainNext ==
    \/ ChainCreateTag
    \/ ChainCreateTask
    \/ ChainUpdateTask
    \/ ChainCompleteTask
    \/ ChainUncompleteTask

SpecChain == Init /\ [][ChainNext]_vars

\* the database is not written
DatabaseUnchanged ==
    UNCHANGED <<tasks, tags, task_tags, audit_logs, tag_seq, now, buckets, clock>>

\* POST /tags as far as the duplicate check of TagService.create_tag
BeginCreateTag(k, u, n) ==
    /\ Free(k)
    /\ inflight' = [inflight EXCEPT ![k] =
          IF TagRepository_get_by_name(Session("none"), u, n) # None
          THEN Done(CONFLICT)
          ELSE [pc |-> "create_tag", user_id |-> u, name |-> n]]
    /\ DatabaseUnchanged

\* ... and from there: the INSERT, the audit entry and the commit
EndCreateTag(k) ==
    /\ inflight[k].pc = "create_tag"
    /\ LET r == create_tag_write(Session("none"), inflight[k].user_id,
                                 inflight[k].name, now)
       IN  /\ Respond(r)
           /\ inflight' = [inflight EXCEPT ![k] = Done(Outcome(r))]

\* PATCH /tags/{tag_id} as far as the duplicate check of
\* TagService.update_tag; the request keeps the Tag object it has loaded
BeginUpdateTag(k, u, id, n) ==
    /\ Free(k)
    /\ LET access == TagService_get_tag_with_access_check(Session("none"), id, u)
           existing == TagRepository_get_by_name(Session("none"), u, n)
       IN  inflight' = [inflight EXCEPT ![k] =
              IF access.result # SUCCESS \/ access.tag = None
              THEN Done(access.result)
              ELSE IF existing # None /\ Val(existing).id # id
              THEN Done(CONFLICT)
              ELSE [pc |-> "update_tag", user_id |-> u,
                    tag |-> Val(access.tag), name |-> n]]
    /\ DatabaseUnchanged

\* ... and from there: the UPDATE, the audit entry and the commit
EndUpdateTag(k) ==
    /\ inflight[k].pc = "update_tag"
    /\ LET r == update_tag_write(Session("none"), inflight[k].tag,
                                 inflight[k].user_id, inflight[k].name, now)
       IN  /\ Respond(r)
           /\ inflight' = [inflight EXCEPT ![k] = Done(Outcome(r))]

\* Tag requests of the users, two at a time
TagRaceNext ==
    \/ \E k \in Slots, u \in Users, n \in TagNames : BeginCreateTag(k, u, n)
    \/ \E k \in Slots : EndCreateTag(k)
    \/ \E k \in Slots, u \in Users, id \in TagIds, n \in TagNames :
          BeginUpdateTag(k, u, id, n)
    \/ \E k \in Slots : EndUpdateTag(k)

SpecTagRace == Init /\ [][TagRaceNext]_vars

\* GET /tasks/{task_id} as far as the first read of
\* TaskService.get_task_with_access_check: exists_by_id
BeginGetTask(k, u, id) ==
    /\ Free(k)
    /\ inflight' = [inflight EXCEPT ![k] =
          IF ~TaskRepository_exists_by_id(Session("none"), id)
          THEN Answered(NOT_FOUND, u, id)
          ELSE [pc |-> "get_task", user_id |-> u, task_id |-> id]]
    /\ DatabaseUnchanged

\* ... and from there: get_by_id, which reads what is committed by now
EndGetTask(k) ==
    /\ inflight[k].pc = "get_task"
    /\ inflight' = [inflight EXCEPT ![k] =
          Answered(access_after_exists(Session("none"), inflight[k].task_id,
                                       inflight[k].user_id).result,
                   inflight[k].user_id, inflight[k].task_id)]
    /\ DatabaseUnchanged

\* Tasks being read while they are created and deleted
TaskRaceNext ==
    \/ CreateTask(Users, NoFault)
    \/ DeleteTask(Users, NoFault)
    \/ \E k \in Slots, u \in Users, id \in TaskIds : BeginGetTask(k, u, id)
    \/ \E k \in Slots : EndGetTask(k)

SpecTaskRace == Init /\ [][TaskRaceNext]_vars

\* POST /tasks/{task_id}/complete as far as `if task.is_completed:` of
\* TaskService.complete_task; the request keeps the Task object it has loaded
BeginCompleteTask(k, u, id) ==
    /\ Free(k)
    /\ LET access == TaskService_get_task_with_access_check(Session("none"), id, u)
       IN  inflight' = [inflight EXCEPT ![k] =
              IF access.result # SUCCESS \/ access.task = None
              THEN Answered(access.result, u, id)
              ELSE IF already_completed(Val(access.task))
              THEN Answered("noop", u, id)
              ELSE [pc |-> "complete_task", user_id |-> u, task_id |-> id,
                    task |-> Val(access.task)]]
    /\ DatabaseUnchanged

\* ... and from there: the UPDATE (which waits for the row lock of a
\* concurrent writer and then applies to the committed row), the audit
\* entry, the follow-up and the commit
EndCompleteTask(k) ==
    /\ inflight[k].pc = "complete_task"
    /\ LET r == complete_task_write(Session("none"), inflight[k].task,
                                    inflight[k].user_id, now)
       IN  /\ RespondWithin(r, MaxChainNow, MaxChainAudit)
           /\ inflight' = [inflight EXCEPT ![k] =
                  Answered(Outcome(r), inflight[k].user_id, inflight[k].task_id)]

\* Recurring tasks being completed by two requests at a time
CompleteRaceNext ==
    \/ ChainCreateTask
    \/ \E k \in Slots, u \in Users, id \in TaskIds : BeginCompleteTask(k, u, id)
    \/ \E k \in Slots : EndCompleteTask(k)

SpecCompleteRace == Init /\ [][CompleteRaceNext]_vars

\* Requests arriving at the rate limiter of one process
LimiterNext ==
    \/ \E identifier \in Identifiers, drift \in Drifts : dispatch(identifier, drift)
    \/ Tick

SpecLimiter == Init /\ [][LimiterNext]_vars

---------------------------------------------------------------------------
(* Properties *)

\* the session a request starts with when nothing fails
Fresh == Session("none")

\* the committed tables as a request finds them
Committed == View(Fresh)

\* what is committed once the handler has finished with the service's return
After(r) == Finish(r).durable

\* the task rows (soft-deleted ones included) and their owners
TaskRows == DOMAIN tasks
OwnedBy(u) == { i \in TaskRows : tasks[i].user_id = u }
Live == { i \in TaskRows : ~tasks[i].is_deleted }

\* whether the log holds an entry of this action about the entity
HasEntry(entity_type, entity_id, action_type) ==
    \E k \in DOMAIN audit_logs :
        /\ audit_logs[k].entity_type = entity_type
        /\ audit_logs[k].entity_id = entity_id
        /\ audit_logs[k].action_type = action_type

\* C1: in every reachable state every task has is_completed true exactly
\* when completed_at is non-null
C1_CompletionFlagMatchesTimestamp ==
    \A i \in TaskRows : tasks[i].is_completed <=> (tasks[i].completed_at # None)

\* a task that was completed and then uncompleted
C1_Witness ==
    \E i \in TaskRows :
        /\ HasEntry("task", i, "complete")
        /\ HasEntry("task", i, "uncomplete")
        /\ ~tasks[i].is_completed /\ tasks[i].completed_at = None

\* C2 (amended): the resolver answers NOT_FOUND exactly when no task that
\* is not soft-deleted has the id, FORBIDDEN exactly when such a task
\* exists and belongs to another user, and SUCCESS with the task exactly
\* when such a task exists and belongs to the caller; likewise for tags,
\* which are never soft-deleted
C2_ResolverOutcomes ==
    /\ \A id \in TaskIds, u \in Users :
          LET r == TaskService_get_task_with_access_check(Fresh, id, u)
              live == id \in Live
          IN  /\ (r.result = NOT_FOUND) <=> ~live
              /\ (r.result = FORBIDDEN) <=> (live /\ tasks[id].user_id # u)
              /\ (r.result = SUCCESS) <=> (live /\ tasks[id].user_id = u)
              /\ r.task = IF r.result = SUCCESS THEN Some(tasks[id]) ELSE None
    /\ \A id \in TagIds, u \in Users :
          LET r == TagService_get_tag_with_access_check(Fresh, id, u)
              rows == { g \in tags : g.id = id }
          IN  /\ (r.result = NOT_FOUND) <=> (rows = {})
              /\ (r.result = FORBIDDEN) <=> (\E g \in rows : g.user_id # u)
              /\ (r.result = SUCCESS) <=> (\E g \in rows : g.user_id = u)
              /\ r.tag = IF r.result = SUCCESS THEN rows ELSE None

\* all three outcomes at once: a missing id, another user's live task,
\* the caller's own live task
C2_Witness ==
    \E u \in Users, a, b, c \in TaskIds :
        /\ TaskService_get_task_with_access_check(Fresh, a, u).result = NOT_FOUND
        /\ a \notin TaskRows
        /\ TaskService_get_task_with_access_check(Fresh, b, u).result = FORBIDDEN
        /\ TaskService_get_task_with_access_check(Fresh, c, u).result = SUCCESS

\* C2 as stated: NOT_FOUND is never returned for a task record that exists
\* and is owned by someone else
C2_NotFoundOnlyForMissingIds ==
    \A id \in TaskIds, u \in Users :
        (id \in TaskRows /\ tasks[id].user_id # u)
            => TaskService_get_task_with_access_check(Fresh, id, u).result # NOT_FOUND

\* the requests user u can make
ByUser(u) ==
    \/ \E d \in TaskCreates : create_task(u, d, "none")
    \/ \E id \in TaskIds, d \in TaskUpdates : update_task(u, id, d, "none")
    \/ \E id \in TaskIds : delete_task(u, id, "none")
    \/ \E id \in TaskIds : complete_task(u, id, "none")
    \/ \E id \in TaskIds : uncomplete_task(u, id, "none")
    \/ \E n \in TagNames : create_tag(u, n, "none")
    \/ \E id \in TagIds, n \in TagUpdates : update_tag(u, id, n, "none")
    \/ \E id \in TagIds : delete_tag(u, id, "none")

\* every task and tag of the users other than u, and the tags attached to
\* those tasks, are after the step what they were before it
OthersUntouched(u) ==
    /\ \A i \in TaskRows :
          tasks[i].user_id # u => (i \in DOMAIN tasks' /\ tasks'[i] = tasks[i])
    /\ { g \in tags : g.user_id # u } = { g \in tags' : g.user_id # u }
    /\ { tt \in task_tags : tasks[tt.task_id].user_id # u }
          = { tt \in task_tags' : tasks'[tt.task_id].user_id # u }

\* a request that was refused and committed nothing
Refused(r) ==
    /\ r.result \in {NOT_FOUND, FORBIDDEN}
    /\ View(r.session) = Committed
    /\ After(r) = Committed

\* each of the six operations, tried by u on a task or tag of someone else
C3_Denied ==
    \A u \in Users :
        /\ \A id \in TaskRows \ OwnedBy(u) :
              /\ \A d \in TaskUpdates :
                    Refused(TaskService_update_task(Fresh, id, u, d, now))
              /\ Refused(TaskService_complete_task(Fresh, id, u, now))
              /\ Refused(TaskService_uncomplete_task(Fresh, id, u, now))
              /\ Refused(TaskService_delete_task(Fresh, id, u, now))
        /\ \A g \in { h \in tags : h.user_id # u } :
              /\ \A n \in TagUpdates :
                    Refused(TagService_update_tag(Fresh, g.id, u, n, now))
              /\ Refused(TagService_delete_tag(Fresh, g.id, u, now))

\* C3: update_task, complete_task, uncomplete_task, delete_task, update_tag
\* and delete_tag by a caller on another user's entity return a non-success
\* access result and leave tasks, tags, associations and audit log as they
\* were; a step that changes a task or tag of someone other than u is no
\* request of u; the owner id (and the id) of a task never changes
C3_OwnershipScoping ==
    /\ []C3_Denied
    /\ [][ /\ \A u \in Users : ~OthersUntouched(u) => ~ByUser(u)
           /\ \A i \in TaskRows :
                 /\ i \in DOMAIN tasks'
                 /\ tasks'[i].user_id = tasks[i].user_id
                 /\ tasks'[i].id = tasks[i].id ]_vars

\* a user has a live task and a tag; the other user, who has a task of
\* their own, is refused on both (FORBIDDEN)
C3_Witness ==
    \E u, v \in Users :
        /\ u # v
        /\ \E i \in OwnedBy(v) \cap Live, g \in tags :
              /\ g.user_id = v
              /\ TaskService_delete_task(Fresh, i, u, now).result = FORBIDDEN
              /\ TagService_delete_tag(Fresh, g.id, u, now).result = FORBIDDEN
        /\ OwnedBy(u) # {}

\* C4: the audit log only grows at its end: after every request the log is
\* the log before it followed by zero or more new entries
C4_AuditAppendOnly ==
    [][ /\ Len(audit_logs') >= Len(audit_logs)
        /\ SubSeq(audit_logs', 1, Len(audit_logs)) = audit_logs ]_vars

\* a log that requests of different kinds have appended to, one of them
\* with two entries at once
C4_Witness ==
    /\ Len(audit_logs) = MaxAudit
    /\ \E k \in DOMAIN audit_logs : audit_logs[k].action_type = "create"
    /\ \E k \in DOMAIN audit_logs : audit_logs[k].action_type = "delete"
    /\ \E k \in 1..(Len(audit_logs) - 1) :
          /\ audit_logs[k].action_type = "complete"
          /\ audit_logs[k + 1].action_type = "recurring_auto_create"

\* the entries of one entity whose action is one of `actions`
Entries(entity_type, entity_id, actions) ==
    SelectSeq(audit_logs, LAMBDA e : /\ e.entity_type = entity_type
                                     /\ e.entity_id = entity_id
                                     /\ e.action_type \in actions)

\* the `update` entries of one field of one entity
Updates(entity_type, entity_id, field) ==
    SelectSeq(audit_logs, LAMBDA e : /\ e.entity_type = entity_type
                                     /\ e.entity_id = entity_id
                                     /\ e.action_type = "update"
                                     /\ e.field_changed = Some(field))

Last(seq) == seq[Len(seq)]

\* the committed task rows and the committed audit entries tell the same
\* story: a row has its one creation entry and every entry has its row;
\* the completion flag is what the last complete / uncomplete entry says;
\* a row is soft-deleted exactly when its delete entry is there; title,
\* priority and recurrence are what the last update entry (or else the
\* create entry) recorded
C5_TasksMatchAudit ==
    /\ \A k \in DOMAIN audit_logs :
          audit_logs[k].entity_type = "task" => audit_logs[k].entity_id \in TaskRows
    /\ \A i \in TaskRows :
          LET born == Entries("task", i, {"create", "recurring_auto_create"})
              done == Entries("task", i, {"complete", "uncomplete"})
              changed == Updates("task", i, "title") \o Updates("task", i, "priority")
                            \o Updates("task", i, "recurrence")
          IN  /\ Len(born) = 1
              /\ tasks[i].created_at = born[1].timestamp
              /\ tasks[i].is_completed
                    <=> (done # <<>> /\ Last(done).action_type = "complete")
              /\ tasks[i].is_completed => tasks[i].completed_at = Some(Last(done).timestamp)
              /\ tasks[i].is_deleted <=> HasEntry("task", i, "delete")
              /\ \A f \in {"title", "priority", "recurrence"} :
                    Updates("task", i, f) # <<>> =>
                        Last(Updates("task", i, f)).new_value = Some(json_str(tasks[i][f]))
              /\ (born[1].action_type = "create" /\ changed = <<>>)
                    => born[1].new_value = task_entity_data(tasks[i])

\* the same for tags: a tag row is there exactly when its create entry is
\* and its delete entry is not, under the name last recorded
C5_TagsMatchAudit ==
    /\ \A k \in DOMAIN audit_logs :
          audit_logs[k].entity_type = "tag" => audit_logs[k].entity_id \in 1..tag_seq
    /\ \A g \in tags : g.id \in 1..tag_seq
    /\ \A id \in 1..tag_seq :
          LET rows == { g \in tags : g.id = id }
              born == Entries("tag", id, {"create"})
              renamed == Updates("tag", id, "name")
          IN  /\ Len(born) = 1
              /\ (rows # {}) <=> ~HasEntry("tag", id, "delete")
              /\ \A g \in rows :
                    IF renamed # <<>>
                    THEN Last(renamed).new_value = Some(json_str(g.name))
                    ELSE born[1].new_value = tag_entity_data(g)

\* a request commits everything its service call wrote, rows and audit
\* entries together, when it succeeds, and nothing at all when the audit
\* write fails, the request is aborted or the call is refused
Atomic(r) ==
    IF Outcome(r) = SUCCESS
    THEN After(r) = View(r.session)
    ELSE After(r) = Committed

C5_AllOrNothing ==
    \A f \in Faults, u \in Users :
        /\ \A d \in TaskCreates : Atomic(TaskService_create_task(Session(f), u, d, now))
        /\ \A id \in TaskIds :
              /\ \A d \in TaskUpdates :
                    Atomic(TaskService_update_task(Session(f), id, u, d, now))
              /\ Atomic(TaskService_complete_task(Session(f), id, u, now))
              /\ Atomic(TaskService_uncomplete_task(Session(f), id, u, now))
              /\ Atomic(TaskService_delete_task(Session(f), id, u, now))
        /\ \A n \in TagNames : Atomic(TagService_create_tag(Session(f), u, n, now))
        /\ \A id \in TagIds :
              /\ \A n \in TagUpdates :
                    Atomic(TagService_update_tag(Session(f), id, u, n, now))
              /\ Atomic(TagService_delete_tag(Session(f), id, u, now))

\* C5: a mutation and its audit entries commit together or not at all: in
\* every committed state the rows and the audit entries agree, and a
\* request whose audit write fails, or that is aborted before its commit,
\* leaves neither the mutation nor any audit entry behind
C5_UnitOfWork ==
    /\ C5_TasksMatchAudit
    /\ C5_TagsMatchAudit
    /\ C5_AllOrNothing

\* a recurring task whose completion has, in the session, written the
\* task row, its audit entry and the follow-up row when the follow-up's
\* audit write fails: the database keeps none of it; a delete that is
\* aborted before its commit; and a completion that did commit, with both
\* of its entries
C5_Witness ==
    /\ \E i \in Live :
          LET r == TaskService_complete_task(Session("audit_next"), i, tasks[i].user_id, now)
          IN  /\ ~tasks[i].is_completed
              /\ r.session.raised
              /\ r.session.tasks[i].is_completed
              /\ Len(r.session.audit_logs) = Len(audit_logs) + 1
              /\ Len(r.session.tasks) = Len(tasks) + 1
              /\ After(r) = Committed
    /\ \E i \in Live :
          LET r == TaskService_delete_task(Session("abort"), i, tasks[i].user_id, now)
          IN  /\ Outcome(r) = "aborted"
              /\ Len(r.session.audit_logs) = Len(audit_logs) + 1
              /\ After(r) = Committed
    /\ \E k \in 1..(Len(audit_logs) - 1) :
          /\ audit_logs[k].action_type = "complete"
          /\ audit_logs[k + 1].action_type = "recurring_auto_create"
          /\ tasks[audit_logs[k].entity_id].is_completed
          /\ audit_logs[k + 1].entity_id \in TaskRows

\* the tasks user u may act on
Mine(u) == OwnedBy(u) \cap Live

\* C6: complete_task on a task that is already completed returns SUCCESS
\* with the task as it is and no follow-up, writes no audit entry, creates
\* no task and changes no field; completing twice leaves what completing
\* once leaves
C6_CompleteIsIdempotent ==
    \A u \in Users : \A i \in Mine(u) :
        LET once == TaskService_complete_task(Fresh, i, u, now)
            twice == TaskService_complete_task(once.session, i, u, now + 1)
        IN  /\ tasks[i].is_completed =>
                  /\ once.result = SUCCESS
                  /\ once.task = Some(tasks[i])
                  /\ once.next_task = None
                  /\ View(once.session) = Committed
                  /\ After(once) = Committed
            /\ twice.result = SUCCESS
            /\ twice.next_task = None
            /\ twice.task = Some(once.session.tasks[i])
            /\ View(twice.session) = View(once.session)

\* a task completed at an earlier time, which completing again leaves alone
C6_Witness ==
    \E i \in Live :
        /\ tasks[i].is_completed
        /\ tasks[i].completed_at # Some(now)
        /\ LET r == TaskService_complete_task(Fresh, i, tasks[i].user_id, now)
           IN  r.result = SUCCESS /\ r.task = Some(tasks[i]) /\ After(r) = Committed

\* days to the next occurrence
Offset(recurrence) ==
    CASE recurrence = "daily" -> 1
      [] recurrence = "weekly" -> 7
      [] recurrence = "monthly" -> 30

\* C7: completing an incomplete task with recurrence daily, weekly or
\* monthly and due date D creates exactly one new task with a new id, the
\* owner, title, description, priority and recurrence of the source, and
\* due date D+1, D+7 or D+30
C7_RecurrenceFollowUp ==
    \A u \in Users : \A i \in Mine(u) :
        ( /\ ~tasks[i].is_completed
          /\ tasks[i].recurrence \in {"daily", "weekly", "monthly"}
          /\ tasks[i].due_date # None )
        => LET r == TaskService_complete_task(Fresh, i, u, now)
               after == r.session.tasks
               new == after[Len(after)]
           IN  /\ r.result = SUCCESS
               /\ Len(after) = Len(tasks) + 1
               /\ r.next_task = Some(new)
               /\ new.id \notin TaskRows
               /\ \A j \in DOMAIN after : after[j].id = new.id => j = Len(after)
               /\ new.user_id = tasks[i].user_id
               /\ new.title = tasks[i].title
               /\ new.description = tasks[i].description
               /\ new.priority = tasks[i].priority
               /\ new.recurrence = tasks[i].recurrence
               /\ new.due_date = Some(Val(tasks[i].due_date) + Offset(tasks[i].recurrence))
               /\ After(r).tasks = after

\* a completed recurring task and the follow-up its completion created
C7_Witness ==
    \E k \in DOMAIN audit_logs : \E i \in TaskRows :
        /\ audit_logs[k].action_type = "recurring_auto_create"
        /\ audit_logs[k].new_value = source_task_data(i)
        /\ tasks[i].is_completed
        /\ LET new == tasks[audit_logs[k].entity_id]
           IN  /\ new.id # i
               /\ new.recurrence = tasks[i].recurrence
               /\ new.due_date = Some(Val(tasks[i].due_date) + Offset(new.recurrence))

\* C8: complete_task creates a follow-up only for a task with a recurrence
\* other than none and a due date; completing a task with recurrence none,
\* or with no due date, changes nothing in the tasks but the completed
\* task's is_completed, completed_at and updated_at
C8_NoFollowUpWithoutRecurrenceAndDueDate ==
    \A u \in Users : \A i \in Mine(u) :
        ~tasks[i].is_completed =>
            LET r == TaskService_complete_task(Fresh, i, u, now)
            IN  /\ (r.next_task # None \/ Len(r.session.tasks) # Len(tasks))
                      => (tasks[i].recurrence # "none" /\ tasks[i].due_date # None)
                /\ (tasks[i].recurrence = "none" \/ tasks[i].due_date = None)
                      => /\ r.result = SUCCESS
                         /\ r.next_task = None
                         /\ r.session.tasks =
                               [tasks EXCEPT ![i] = [@ EXCEPT !.is_completed = TRUE,
                                                              !.completed_at = Some(now),
                                                              !.updated_at = now]]
                         /\ After(r).tasks = r.session.tasks

\* a completed task that recurs but has no due date, and one with a due
\* date that does not recur, in a log without any automatic creation
C8_Witness ==
    /\ \E i \in TaskRows :
          /\ tasks[i].is_completed
          /\ HasEntry("task", i, "complete")
          /\ \/ tasks[i].recurrence # "none" /\ tasks[i].due_date = None
             \/ tasks[i].recurrence = "none" /\ tasks[i].due_date # None
    /\ \A k \in DOMAIN audit_logs : audit_logs[k].action_type # "recurring_auto_create"
    /\ \A i \in TaskRows : HasEntry("task", i, "create")

\* what every caller sees of a task that delete_task has deleted
C9_Hidden ==
    \A i \in TaskRows :
        HasEntry("task", i, "delete") =>
            /\ \A u \in Users :
                  /\ \A row \in TaskService_list_tasks(Fresh, u) : row.id # i
                  /\ TaskService_get_task(Fresh, i, u) = None
                  /\ TaskService_get_task_with_access_check(Fresh, i, u).result # SUCCESS
                  /\ TaskService_get_task_with_access_check(Fresh, i, u).task = None
            /\ TaskRepository_get_by_id_including_deleted(Fresh, i, tasks[i].user_id)
                  = Some(tasks[i])

\* C9: once delete_task has succeeded on a task, no caller's list_tasks,
\* get_task or get_task_with_access_check returns it, whatever happens
\* later; its row is never removed, stays deleted, and its owner still
\* gets it from get_by_id_including_deleted
C9_SoftDeletedIsHiddenButKept ==
    /\ []C9_Hidden
    /\ [][ \A i \in TaskRows :
              /\ i \in DOMAIN tasks'
              /\ tasks[i].is_deleted => tasks'[i] = tasks[i] ]_vars

\* a task deleted some requests ago, whose owner lists another task
C9_Witness ==
    \E i \in TaskRows :
        /\ HasEntry("task", i, "delete")
        /\ tasks[i].deleted_at # Some(now - 1)
        /\ TaskService_list_tasks(Fresh, tasks[i].user_id) # {}
        /\ TaskRepository_get_by_id_including_deleted(Fresh, i, tasks[i].user_id) # None

\* C10: a task has is_deleted true exactly when deleted_at and deleted_by
\* are both set; delete_task records the caller in deleted_by and appends
\* exactly one audit entry, action delete, field is_deleted, false -> true
C10_DeletionFieldsAndAudit ==
    /\ \A i \in TaskRows :
          tasks[i].is_deleted
              <=> (tasks[i].deleted_at # None /\ tasks[i].deleted_by # None)
    /\ \A u \in Users : \A i \in Mine(u) :
          LET r == TaskService_delete_task(Fresh, i, u, now)
              log == r.session.audit_logs
              entry == log[Len(log)]
          IN  /\ r.result = SUCCESS
              /\ r.session.tasks[i].is_deleted
              /\ r.session.tasks[i].deleted_by = Some(u)
              /\ Len(log) = Len(audit_logs) + 1
              /\ SubSeq(log, 1, Len(audit_logs)) = audit_logs
              /\ entry.entity_type = "task" /\ entry.entity_id = i
              /\ entry.user_id = u
              /\ entry.action_type = "delete"
              /\ entry.field_changed = Some("is_deleted")
              /\ entry.old_value = Some("false")
              /\ entry.new_value = Some("true")
              /\ After(r) = View(r.session)

\* a deleted task that names its owner as the deleter, with its one delete
\* entry in the log
C10_Witness ==
    \E i \in TaskRows :
        /\ tasks[i].is_deleted
        /\ tasks[i].deleted_by = Some(tasks[i].user_id)
        /\ tasks[i].deleted_at # None
        /\ Len(Entries("task", i, {"delete"})) = 1
        /\ Entries("task", i, {"delete"})[1].field_changed = Some("is_deleted")

\* two names that differ at most in the case of their letters
SameIgnoringCase(a, b) ==
    \/ a = b
    \/ {a, b} = {"Work", "work"}
    \/ {a, b} = {"Home", "home"}

\* the tags of user u
TagsOf(u) == { g \in tags : g.user_id = u }

\* C11: create_tag for an owner who has a tag of the same name ignoring
\* case ends in Conflict, creates no tag and writes no audit entry; tags of
\* other owners do not stand in the way of the name
C11_DuplicateTagNameConflicts ==
    \A u \in Users, n \in TagNames :
        LET r == TagService_create_tag(Fresh, u, n, now)
        IN  IF \E g \in TagsOf(u) : SameIgnoringCase(g.name, n)
            THEN /\ r.result = CONFLICT
                 /\ Outcome(r) = CONFLICT
                 /\ View(r.session) = Committed
                 /\ After(r) = Committed
            ELSE /\ r.result = SUCCESS
                 /\ r.session.tags = tags \cup r.task
                 /\ \E g \in r.task : g.user_id = u /\ g.name = n /\ g \notin tags
                 /\ Len(r.session.audit_logs) = Len(audit_logs) + 1

\* an owner holds "Work" and is refused "work", which another owner holds
C11_Witness ==
    \E u, v \in Users :
        /\ u # v
        /\ \E g \in TagsOf(u) : g.name = "Work"
        /\ \E g \in TagsOf(v) : g.name = "work"
        /\ TagService_create_tag(Fresh, u, "work", now).result = CONFLICT
        /\ Len(audit_logs) = 2

\* C12 as stated: in every committed state, also when create_tag and
\* update_tag requests of an owner overlap, no owner has two tags whose
\* names are equal ignoring case, and no request ends in a storage error
\* instead of Conflict
C12_TagNamesUniqueUnderConcurrency ==
    /\ \A g, h \in tags :
          (g.user_id = h.user_id /\ SameIgnoringCase(g.name, h.name)) => g.id = h.id
    /\ \A k \in Slots :
          inflight[k].pc = "done" => inflight[k].outcome # "error"

\* two requests of one owner that have both answered success and left the
\* owner with "Work" and "work"
C12_Witness ==
    /\ \A k \in Slots : inflight[k] = Done(SUCCESS)
    /\ \E g, h \in tags :
          /\ g.user_id = h.user_id
          /\ g.name = "Work" /\ h.name = "work"

\* the timestamps of a bucket that lie in the window ending at t
InWindow(requests, t) ==
    { i \in DOMAIN requests :
        /\ requests[i] > t - window_seconds * TicksPerSecond
        /\ requests[i] <= t }

\* C13 as stated: for every identifier and every instant t, the admitted
\* requests with timestamps in (t - window, t] are never more than
\* requests_per_minute (a bucket still holds every admitted timestamp
\* within one window of its newest, so its timestamps are the instants
\* where the number peaks)
C13_SlidingWindowAdmission ==
    \A identifier \in DOMAIN buckets :
        \A i \in DOMAIN buckets[identifier] :
            Cardinality(InWindow(buckets[identifier], buckets[identifier][i]))
                <= requests_per_minute

\* a bucket that is full: as many admitted timestamps in the window ending
\* now as the limit allows
C13_Witness ==
    \E identifier \in DOMAIN buckets :
        /\ clock > 0
        /\ Cardinality(InWindow(buckets[identifier], clock)) = requests_per_minute

\* the bucket of an identifier, empty when it has none yet
BucketOf(identifier) ==
    IF identifier \in DOMAIN buckets THEN buckets[identifier] ELSE <<>>

Occ(requests, t) == Cardinality({ i \in DOMAIN requests : requests[i] = t })

\* the bucket of an identifier in the buckets a call leaves behind
BucketIn(bkts, identifier) ==
    IF identifier \in DOMAIN bkts THEN bkts[identifier] ELSE <<>>

\* a call for `identifier` that turns `buckets` into `bkts` has kept every
\* timestamp of the window ending at `time`
NothingLost(bkts, identifier, time) ==
    \A i \in InWindow(BucketOf(identifier), time) :
        Occ(BucketIn(bkts, identifier), BucketOf(identifier)[i])
            >= Occ(BucketOf(identifier), BucketOf(identifier)[i])

\* a call for `identifier` that turns `buckets` into `bkts` has left the
\* buckets of all other identifiers as they were
OthersKept(bkts, identifier) ==
    \A other \in Identifiers \ {identifier} :
        /\ other \in DOMAIN bkts <=> other \in DOMAIN buckets
        /\ BucketIn(bkts, other) = BucketOf(other)

C16_RejectionRecordsNothing ==
    \A identifier \in Identifiers, drift \in Drifts :
        LET r == RateLimiter_is_allowed(buckets, identifier, clock, clock + drift)
        IN  ~r.allowed =>
                /\ r.remaining = 0
                /\ r.buckets = buckets

\* a full bucket, whose identifier is turned away now
C16_Witness ==
    \E identifier \in DOMAIN buckets :
        /\ Len(buckets[identifier]) = requests_per_minute
        /\ ~RateLimiter_is_allowed(buckets, identifier, clock, clock).allowed

\* the clock reads of a call that follows another: later by 0..2 ticks, the
\* read inside count later again by a drift
Gaps == {0, 1, 2}

\* C17: an admitted is_allowed appends exactly one timestamp, its own, to
\* what the bucket keeps, and returns remaining = limit - count - 1, which
\* lies in 0..limit-1; the next admitted call for the identifier that still
\* counts every timestamp the first one counted, and the first one's own,
\* returns a remaining lower by exactly 1
C17_AdmissionCountsDown ==
    \A identifier \in Identifiers, drift \in Drifts :
        LET time == clock + drift
            before == BucketOf(identifier)
            counted == InWindow(before, time)
            r == RateLimiter_is_allowed(buckets, identifier, clock, time)
            after == r.buckets[identifier]
        IN  r.allowed =>
                /\ Len(after) >= 1
                /\ after[Len(after)] = clock
                /\ \A t \in 0..MaxClock :
                       Occ(after, t) =
                           (IF t > clock - window_seconds * TicksPerSecond
                            THEN Occ(before, t) ELSE 0)
                           + (IF t = clock THEN 1 ELSE 0)
                /\ r.remaining = requests_per_minute - Cardinality(counted) - 1
                /\ r.remaining \in 0..(requests_per_minute - 1)
                /\ \A gap \in Gaps, drift2 \in Drifts :
                       LET t2 == time + gap
                           time2 == t2 + drift2
                           r2 == RateLimiter_is_allowed(r.buckets, identifier, t2, time2)
                           same_window ==
                               /\ clock > time2 - window_seconds * TicksPerSecond
                               /\ \A i \in counted :
                                      before[i] > time2 - window_seconds * TicksPerSecond
                       IN  (same_window /\ r2.allowed) =>
                               r2.remaining = r.remaining - 1

\* an identifier with one admitted request in the window and room for one
\* more, which then returns remaining 0
C17_Witness ==
    \E identifier \in DOMAIN buckets :
        /\ Cardinality(InWindow(buckets[identifier], clock)) = requests_per_minute - 1
        /\ Len(buckets[identifier]) >= 1
        /\ RateLimiter_is_allowed(buckets, identifier, clock, clock).allowed
        /\ RateLimiter_is_allowed(buckets, identifier, clock, clock).remaining = 0

\* the clock reads get_retry_after may make from the present state on
Laters == {0, 1, 2}

\* C18 as stated: for every identifier and every state of its bucket
\* get_retry_after returns at least 1
C18_RetryAfterAtLeastOne ==
    \A identifier \in Identifiers, later \in Laters :
        RateLimiter_get_retry_after(buckets, identifier, clock + later) >= 1

\* C18, amended: for an identifier whose bucket holds a timestamp,
\* get_retry_after returns the whole seconds left until the oldest one leaves
\* the window, and 1 where that is less than 1; for an identifier with no
\* bucket, or an empty one, it returns 0
C18_RetryAfterOfOldest ==
    \A identifier \in Identifiers, later \in Laters :
        LET time == clock + later
            retry_after == RateLimiter_get_retry_after(buckets, identifier, time)
            requests == BucketOf(identifier)
        IN  IF requests = <<>>
            THEN retry_after = 0
            ELSE \E i \in DOMAIN requests :
                    LET left == window_seconds * TicksPerSecond - (time - requests[i])
                    IN  /\ \A j \in DOMAIN requests : requests[i] <= requests[j]
                        /\ retry_after >= 1
                        /\ left >= TicksPerSecond =>
                               /\ retry_after * TicksPerSecond <= left
                               /\ left < (retry_after + 1) * TicksPerSecond
                        /\ left < TicksPerSecond => retry_after = 1

\* one identifier whose oldest timestamp has left the window, where the
\* minimum of 1 applies, and one that has no bucket
C18_Witness ==
    /\ \E identifier \in DOMAIN buckets :
           /\ buckets[identifier] # <<>>
           /\ oldest_of(buckets[identifier]) <= clock - window_seconds * TicksPerSecond
           /\ RateLimiter_get_retry_after(buckets, identifier, clock) = 1
    /\ \E identifier \in Identifiers :
           /\ identifier \notin DOMAIN buckets
           /\ RateLimiter_get_retry_after(buckets, identifier, clock) = 0

\* C19 as stated: the two reads of one get_task_with_access_check see one
\* snapshot, so whatever is committed between them, the answer is one that
\* a single state gives: never FORBIDDEN for the owner of the task, SUCCESS
\* only for the owner
C19_AccessCheckSeesOneSnapshot ==
    \A k \in Slots :
        (inflight[k].pc = "done" /\ inflight[k].task_id \in DOMAIN tasks) =>
            LET owner == tasks[inflight[k].task_id].user_id
            IN  /\ inflight[k].outcome = FORBIDDEN => inflight[k].user_id # owner
                /\ inflight[k].outcome = SUCCESS => inflight[k].user_id = owner

\* a GET of the owner between its two reads, whose task has been
\* soft-deleted since the first
C19_Witness ==
    \E k \in Slots :
        /\ inflight[k].pc = "get_task"
        /\ tasks[inflight[k].task_id].user_id = inflight[k].user_id
        /\ tasks[inflight[k].task_id].is_deleted

\* the audit entries a request has added to the log by the time it returns
Added(s) == SubSeq(s.audit_logs, Len(audit_logs) + 1, Len(s.audit_logs))

\* C20 as stated: after a successful update_task every field of title,
\* description, priority, due_date and recurrence that the patch sets to a
\* different value, null included, has the patch's value and exactly one
\* audit update entry of the request; every other field keeps its value and
\* has no such entry
C20_UpdateAppliesFieldDiff ==
    \A u \in Users, id \in TaskRows, data \in TaskUpdates :
        LET r == TaskService_update_task(Fresh, id, u, data, now)
        IN  r.result = SUCCESS =>
                LET before == update_candidates(tasks[id], data)
                    after == update_candidates(r.session.tasks[id], data)
                IN  \A i \in DOMAIN before :
                        LET logged == SelectSeq(Added(r.session), LAMBDA e :
                                /\ e.entity_type = "task"
                                /\ e.entity_id = id
                                /\ e.action_type = "update"
                                /\ e.field_changed = Some(before[i].field))
                        IN  IF /\ before[i].field \in data.present
                               /\ before[i].old # before[i].new
                            THEN /\ after[i].old = before[i].new
                                 /\ Len(logged) = 1
                            ELSE /\ after[i].old = before[i].old
                                 /\ Len(logged) = 0

\* a task that still has its due date although the log holds an update of
\* due_date for it: the patch that set due_date to null has been served
C20_Witness ==
    \E id \in TaskRows :
        /\ tasks[id].due_date # None
        /\ Updates("task", id, "due_date") # <<>>

\* the tag ids a task is associated with in a session / in the database
TagIdsOf(s, task_id) == { tt.tag_id : tt \in { x \in s.task_tags : x.task_id = task_id } }

\* a patch that sets nothing but the tag list
TagListPatch(T) == Patch({"tag_ids"}, None, None, None, None, None, Some(T))

\* C21: after a successful update_task with tag list T the task's tags are
\* exactly the tags of T that exist and belong to the caller (earlier
\* associations outside T are gone, an empty T leaves none, missing and
\* foreign tags are dropped); and in every reachable state an association
\* links a task and a tag of one owner
C21_TagListReplacesTags ==
    /\ \A u \in Users, id \in TaskRows, T \in SUBSET TagIds :
           LET r == TaskService_update_task(Fresh, id, u, TagListPatch(T), now)
           IN  r.result = SUCCESS =>
                   /\ TagIdsOf(r.session, id) =
                          { g.id : g \in { h \in tags : h.id \in T /\ h.user_id = u } }
                   /\ \A other \in TaskRows \ {id} :
                          TagIdsOf(r.session, other) = TagIdsOf(Fresh, other)
    /\ \A tt \in task_tags :
           /\ tt.task_id \in TaskRows
           /\ \A g \in tags : g.id = tt.tag_id => g.user_id = tasks[tt.task_id].user_id

\* a task that update_task has given tag 1 (its title was changed by the
\* same patch), and whose tags a further update with the empty list clears
C21_Witness ==
    \E id \in TaskRows :
        /\ Updates("task", id, "title") # <<>>
        /\ TagIdsOf(Fresh, id) = {1}
        /\ TagIdsOf(TaskService_update_task(Fresh, id, tasks[id].user_id,
                                            TagListPatch({}), now).session, id) = {}

\* C22: uncomplete_task on a completed task clears is_completed and
\* completed_at and adds exactly one audit entry, with action uncomplete;
\* on an incomplete task it returns SUCCESS, changes nothing and adds no
\* entry; either way no task is created or removed and no other task is
\* touched, so after complete and uncomplete the task is incomplete again
\* and the follow-up of the completion is still there
C22_UncompleteIsIdempotentInverse ==
    \A u \in Users : \A i \in Mine(u) :
        LET r == TaskService_uncomplete_task(Fresh, i, u, now)
            row == r.session.tasks[i]
            again == TaskService_uncomplete_task(r.session, i, u, now + 1)
            done == TaskService_complete_task(Fresh, i, u, now)
            undone == TaskService_uncomplete_task(done.session, i, u, now + 1)
        IN  /\ r.result = SUCCESS
            /\ Len(r.session.tasks) = Len(tasks)
            /\ \A j \in TaskRows \ {i} : r.session.tasks[j] = tasks[j]
            /\ tasks[i].is_completed =>
                  /\ row = [tasks[i] EXCEPT !.is_completed = FALSE,
                                            !.completed_at = None,
                                            !.updated_at = now]
                  /\ r.task = Some(row)
                  /\ Len(Added(r.session)) = 1
                  /\ Added(r.session)[1].action_type = "uncomplete"
                  /\ Added(r.session)[1].entity_type = "task"
                  /\ Added(r.session)[1].entity_id = i
                  /\ Added(r.session)[1].user_id = u
            /\ ~tasks[i].is_completed =>
                  /\ r.task = Some(tasks[i])
                  /\ View(r.session) = Committed
            /\ again.result = SUCCESS
            /\ View(again.session) = View(r.session)
            /\ undone.result = SUCCESS
            /\ ~undone.session.tasks[i].is_completed
            /\ undone.session.tasks[i].completed_at = None
            /\ undone.session.tasks = [done.session.tasks EXCEPT ![i] =
                                           undone.session.tasks[i]]

\* a recurring task that was completed and then uncompleted: it is
\* incomplete, the log holds both entries, and the follow-up is still there
C22_Witness ==
    \E i \in Live :
        /\ ~tasks[i].is_completed
        /\ tasks[i].completed_at = None
        /\ HasEntry("task", i, "complete")
        /\ HasEntry("task", i, "uncomplete")
        /\ \E j \in TaskRows : HasEntry("task", j, "recurring_auto_create")

\* the `update` entries for the name of a tag among the entries a request
\* has added
NameUpdates(s, tag_id) ==
    SelectSeq(Added(s), LAMBDA e : /\ e.entity_type = "tag"
                                   /\ e.entity_id = tag_id
                                   /\ e.action_type = "update"
                                   /\ e.field_changed = Some("name"))

\* C23 as stated: a successful update_tag adds an update entry for the name
\* exactly when the name changes; with the tag's current name, or with no
\* name, it adds no entry
C23_NameAuditOnlyOnChange ==
    \A g \in tags, data_name \in TagUpdates :
        LET r == TagService_update_tag(Fresh, g.id, g.user_id, data_name, now)
        IN  r.result = SUCCESS =>
                IF data_name # None /\ Val(data_name) # g.name
                THEN Len(NameUpdates(r.session, g.id)) = 1
                ELSE Added(r.session) = <<>>

\* a tag whose log holds an update of its name from a value to the same
\* value: update_tag has been served with the name the tag already had
C23_Witness ==
    \E g \in tags :
        \E k \in DOMAIN audit_logs :
            /\ audit_logs[k].entity_type = "tag"
            /\ audit_logs[k].entity_id = g.id
            /\ audit_logs[k].action_type = "update"
            /\ audit_logs[k].old_value = audit_logs[k].new_value

\* C24: update_tag with a name that another tag of the same owner has,
\* ignoring case, ends in Conflict and leaves the tags and the audit log as
\* they were; with any other name, a different-case variant of the tag's
\* own name and names of other owners' tags included, it succeeds and the
\* tag has the new name
C24_RenameKeepsOwnersNamesUnique ==
    \A g \in tags, n \in TagNames :
        LET r == TagService_update_tag(Fresh, g.id, g.user_id, Some(n), now)
            taken == \E h \in TagsOf(g.user_id) :
                         h.id # g.id /\ SameIgnoringCase(h.name, n)
        IN  IF taken
            THEN /\ Outcome(r) = CONFLICT
                 /\ View(r.session) = Committed
                 /\ After(r) = Committed
            ELSE /\ Outcome(r) = SUCCESS
                 /\ After(r).tags = (tags \ {g}) \cup {[g EXCEPT !.name = n]}

\* an owner with the tags work and Home, the first renamed from Work: the
\* rename to the own name's other spelling went through, while renaming
\* Home to Work is refused
C24_Witness ==
    \E g, h \in tags :
        /\ g.user_id = h.user_id
        /\ g.name = "work" /\ h.name = "Home"
        /\ Updates("tag", g.id, "name") # <<>>
        /\ Last(Updates("tag", g.id, "name")).old_value
               # Last(Updates("tag", g.id, "name")).new_value
        /\ TagService_update_tag(Fresh, h.id, h.user_id, Some("Work"), now).result
               = CONFLICT

\* C25: a successful delete_tag removes the tag and every association that
\* references it, leaves all tasks and all other associations as they
\* were, and adds exactly one audit entry: action delete, with no
\* field_changed, old_value or new_value; in every reachable state every
\* association references an existing tag
C25_DeleteTagCascades ==
    /\ \A g \in tags :
           LET r == TagService_delete_tag(Fresh, g.id, g.user_id, now)
           IN  /\ Outcome(r) = SUCCESS
               /\ r.session.tags = tags \ {g}
               /\ \A h \in r.session.tags : h.id # g.id
               /\ r.session.task_tags = { tt \in task_tags : tt.tag_id # g.id }
               /\ r.session.tasks = tasks
               /\ Len(Added(r.session)) = 1
               /\ Added(r.session)[1] =
                      AuditLog("tag", g.id, g.user_id, "delete",
                               None, None, None, FALSE, now)
               /\ After(r) = View(r.session)
    /\ \A tt \in task_tags : \E g \in tags : g.id = tt.tag_id

\* a tag that was created, given to a task at the task's creation and then
\* deleted: the task is still there and carries no tag
C25_Witness ==
    \E a, b, c \in DOMAIN audit_logs : \E i \in Live :
        /\ a < b /\ b < c
        /\ audit_logs[a].entity_type = "tag" /\ audit_logs[a].entity_id = 1
        /\ audit_logs[a].action_type = "create"
        /\ audit_logs[b].entity_type = "task" /\ audit_logs[b].entity_id = i
        /\ audit_logs[b].action_type = "create"
        /\ audit_logs[b].user_id = audit_logs[a].user_id
        /\ tasks[i].recurrence = "weekly"
        /\ audit_logs[c].entity_type = "tag" /\ audit_logs[c].entity_id = 1
        /\ audit_logs[c].action_type = "delete"
        /\ audit_logs[c].field_changed = None
        /\ TagIdsOf(Fresh, i) = {}
        /\ tags = {}

\* ceil(total / page_size): the least number of pages that hold `total`
\* items
Ceil(total, page_size) ==
    CHOOSE n \in 0..total : n * page_size >= total /\ (n = 0 \/ (n - 1) * page_size < total)

\* the elements of a sequence
Range(seq) == { seq[i] : i \in DOMAIN seq }

\* C26: for the task and the tag listing, with any page and any page_size
\* from 1 on: total is the number of the caller's tasks that are not
\* deleted (of the caller's tags), whatever the page; total_pages is
\* ceil(total / page_size), 0 for total 0; a page beyond total_pages is an
\* empty list; the pages up to total_pages are not empty and hold only
\* matching items
C26_Pagination ==
    \A u \in Users, page \in Pages, page_size \in PageSizes :
        LET t == list_tasks(u, page, page_size)
            g == list_tags(u, page, page_size)
        IN  /\ t.total = Cardinality(Mine(u))
            /\ t.total_pages = Ceil(t.total, page_size)
            /\ page > t.total_pages => t.items = <<>>
            /\ page <= t.total_pages => t.items # <<>>
            /\ Len(t.items) <= page_size
            /\ Range(t.items) \subseteq { tasks[i] : i \in Mine(u) }
            /\ g.total = Cardinality(TagsOf(u))
            /\ g.total_pages = Ceil(g.total, page_size)
            /\ page > g.total_pages => g.items = <<>>
            /\ page <= g.total_pages => g.items # <<>>
            /\ Len(g.items) <= page_size
            /\ Range(g.items) \subseteq TagsOf(u)

\* a caller with three tasks, listed two to a page: two pages, the second
\* with one task, the third empty
C26_Witness ==
    \E u \in Users :
        /\ Cardinality(Mine(u)) = 3
        /\ list_tasks(u, 1, 2).total_pages = 2
        /\ Len(list_tasks(u, 2, 2).items) = 1
        /\ list_tasks(u, 3, 2).items = <<>>
        /\ list_tasks(u, 3, 2).total = 3

\* C27: completing an incomplete task with a recurrence other than none and
\* a due date adds exactly two audit entries: first `complete` for the
\* source task, by the caller and not a system action; then
\* `recurring_auto_create` for the new follow-up task, by the caller,
\* flagged as system action, with the source task's id in new_value; the
\* follow-up row consists of its own fields only and names no source
C27_CompletionAuditPair ==
    \A u \in Users : \A i \in Mine(u) :
        ( /\ ~tasks[i].is_completed
          /\ tasks[i].recurrence # "none"
          /\ tasks[i].due_date # None )
        => LET r == TaskService_complete_task(Fresh, i, u, now)
               added == Added(r.session)
               new == r.session.tasks[Len(r.session.tasks)]
           IN  /\ r.result = SUCCESS
               /\ Len(added) = 2
               /\ added[1].action_type = "complete"
               /\ added[1].entity_type = "task"
               /\ added[1].entity_id = i
               /\ added[1].user_id = u
               /\ added[1].is_system_action = FALSE
               /\ added[2].action_type = "recurring_auto_create"
               /\ added[2].entity_type = "task"
               /\ added[2].entity_id = new.id
               /\ added[2].entity_id # i
               /\ added[2].user_id = u
               /\ added[2].is_system_action = TRUE
               /\ added[2].new_value = source_task_data(i)
               /\ added[2].field_changed = None
               /\ added[2].old_value = None
               /\ new = Task(new.id, u, tasks[i].title, tasks[i].description,
                             tasks[i].priority, new.due_date,
                             tasks[i].recurrence, now)
               /\ After(r).audit_logs = audit_logs \o added

\* the log of a served completion: a complete entry directly followed by
\* the recurring_auto_create entry that names its task as the source
C27_Witness ==
    \E k \in DOMAIN audit_logs :
        /\ k + 1 \in DOMAIN audit_logs
        /\ audit_logs[k].action_type = "complete"
        /\ ~audit_logs[k].is_system_action
        /\ audit_logs[k + 1].action_type = "recurring_auto_create"
        /\ audit_logs[k + 1].is_system_action
        /\ audit_logs[k + 1].new_value = source_task_data(audit_logs[k].entity_id)
        /\ audit_logs[k + 1].entity_id # audit_logs[k].entity_id

\* the recurring_auto_create entries that name task i as their source
FollowUpEntries(i) ==
    SelectSeq(audit_logs, LAMBDA e : /\ e.action_type = "recurring_auto_create"
                                     /\ e.new_value = source_task_data(i))

\* the tasks synthesized from task i
FollowUps(i) == { FollowUpEntries(i)[k].entity_id : k \in DOMAIN FollowUpEntries(i) }

\* C28 as stated: for a task with a recurrence other than none and a due
\* date, the number of follow-up tasks synthesized from it always equals
\* the number of complete entries recorded for it
C28_FollowUpPerCompleteEntry ==
    \A i \in TaskRows :
        (tasks[i].recurrence # "none" /\ tasks[i].due_date # None) =>
            Cardinality(FollowUps(i)) = Len(Entries("task", i, {"complete"}))

\* a task that has its recurrence and due date from its creation: no
\* update entry for either is in the log
SinceCreation(i) ==
    /\ Updates("task", i, "recurrence") = <<>>
    /\ Updates("task", i, "due_date") = <<>>

\* C28, amended: for a task that has had a recurrence other than none and a
\* due date D since its creation, the follow-up tasks synthesized from it
\* are as many as the complete entries recorded for it, one per entry and
\* all due at D plus the step, however completions and uncompletions
\* alternate; a follow-up of a follow-up is due at D plus twice the step;
\* and the follow-up that a completion creates is incomplete, not deleted
\* and has no tags, whatever tags the source has
C28_FollowUpPerCompletion ==
    /\ \A i \in TaskRows :
          ( /\ tasks[i].recurrence # "none"
            /\ tasks[i].due_date # None
            /\ SinceCreation(i) ) =>
              /\ Cardinality(FollowUps(i)) = Len(Entries("task", i, {"complete"}))
              /\ Len(FollowUpEntries(i)) = Len(Entries("task", i, {"complete"}))
              /\ \A j \in FollowUps(i) :
                    /\ j \in TaskRows /\ j # i
                    /\ tasks[j].due_date =
                           Some(Val(tasks[i].due_date) + Offset(tasks[i].recurrence))
                    /\ (SinceCreation(j) /\ tasks[j].recurrence # "none") =>
                           \A l \in FollowUps(j) :
                               tasks[l].due_date =
                                   Some(Val(tasks[i].due_date)
                                            + 2 * Offset(tasks[i].recurrence))
    /\ \A u \in Users : \A i \in Mine(u) :
          ( /\ ~tasks[i].is_completed
            /\ tasks[i].recurrence # "none"
            /\ tasks[i].due_date # None ) =>
              LET r == TaskService_complete_task(Fresh, i, u, now)
                  new == r.session.tasks[Len(r.session.tasks)]
              IN  /\ Len(r.session.tasks) = Len(tasks) + 1
                  /\ ~new.is_completed /\ new.completed_at = None
                  /\ ~new.is_deleted
                  /\ TagIdsOf(r.session, new.id) = {}
                  /\ TagIdsOf(r.session, i) = TagIdsOf(Fresh, i)

\* a tagged task completed, uncompleted and completed again: two complete
\* entries, two follow-ups with the same due date and without tags
C28_Witness ==
    \E i \in TaskRows : \E j, l \in FollowUps(i) :
        /\ j # l
        /\ SinceCreation(i)
        /\ TagIdsOf(Fresh, i) # {}
        /\ Len(Entries("task", i, {"complete"})) = 2
        /\ Len(Entries("task", i, {"uncomplete"})) = 1
        /\ tasks[j].due_date = tasks[l].due_date
        /\ TagIdsOf(Fresh, j) = {} /\ TagIdsOf(Fresh, l) = {}

\* the requests to complete task i that went through to the write and
\* committed
Completers(i) ==
    { k \in Slots : /\ inflight[k].pc = "done"
                    /\ inflight[k].task_id = i
                    /\ inflight[k].outcome = SUCCESS }

\* C29: when two complete_task requests for one incomplete recurring task
\* with a due date overlap and both commit, the task is completed once: it
\* has at most one complete audit entry and at most one follow-up task.
C29_ConcurrentCompletionOnce ==
    \A i \in TaskRows :
        (tasks[i].recurrence # "none" /\ tasks[i].due_date # None) =>
            /\ Len(Entries("task", i, {"complete"})) <= 1
            /\ Cardinality(FollowUps(i)) <= 1

\* both requests have committed their completion of the same recurring task
C29_Witness ==
    \E i \in TaskRows :
        /\ Completers(i) = Slots
        /\ tasks[i].recurrence # "none"
        /\ tasks[i].due_date # None
        /\ tasks[i].is_completed

SoftDeleted == { i \in TaskRows : tasks[i].is_deleted }

\* what the operations of the task service return for task id i and caller
\* u, each run on the committed state
TaskOperations(i, u) ==
    { TaskService_complete_task(Fresh, i, u, now),
      TaskService_uncomplete_task(Fresh, i, u, now),
      TaskService_delete_task(Fresh, i, u, now) }
    \cup { TaskService_update_task(Fresh, i, u, d, now) : d \in TaskUpdates }

\* what every operation of the two services returns, for every caller and
\* every input
ServiceOperations ==
    UNION { TaskOperations(i, u) : i \in TaskIds, u \in Users }
    \cup { TaskService_create_task(Fresh, u, d, now) : u \in Users, d \in TaskCreates }
    \cup { TagService_create_tag(Fresh, u, n, now) : u \in Users, n \in TagNames }
    \cup { TagService_update_tag(Fresh, g, u, n, now) :
              g \in TagIds, u \in Users, n \in TagUpdates }
    \cup { TagService_delete_tag(Fresh, g, u, now) : g \in TagIds, u \in Users }

\* C30: on the id of a soft-deleted task get_task_with_access_check,
\* update_task, complete_task, uncomplete_task and delete_task return
\* NOT_FOUND for the owner and for every other user and leave the tables and
\* the audit log as they are; no operation of the services changes the row
\* of a soft-deleted task, so is_deleted is never reset: every task that was
\* deleted, by the one delete entry the log has about it, is still deleted
C30_SoftDeletionIsTerminal ==
    /\ \A i \in SoftDeleted : \A u \in Users :
          /\ TaskService_get_task_with_access_check(Fresh, i, u) =
                [result |-> NOT_FOUND, task |-> None]
          /\ \A r \in TaskOperations(i, u) :
                /\ r.result = NOT_FOUND
                /\ View(r.session) = Committed
                /\ After(r) = Committed
    /\ \A i \in SoftDeleted : \A r \in ServiceOperations :
          /\ r.session.tasks[i] = tasks[i]
          /\ After(r).tasks[i] = tasks[i]
    /\ \A i \in TaskRows :
          /\ Len(Entries("task", i, {"delete"})) <= 1
          /\ tasks[i].is_deleted <=> Entries("task", i, {"delete"}) # <<>>

\* a soft-deleted task, with a request of the other user having changed the
\* database since
C30_Witness ==
    \E i \in SoftDeleted :
        /\ Last(audit_logs).user_id # tasks[i].user_id
        /\ Last(audit_logs).timestamp > Val(tasks[i].deleted_at)

====
